---------------------------- MODULE Spec2Model ----------------------------
(***************************************************************************)
(* A model of the moicad CSG engine (src/wasm/src): the vector/matrix      *)
(* kernel, the mesh model, the BSP tree and its boolean operations, the    *)
(* concatenation union and the transforms, the incremental convex hull     *)
(* and the host-facing operators with their metadata.                      *)
(*                                                                         *)
(* NUMBERS.  The program computes in f32.  The model computes on a grid:   *)
(* a coordinate is an integer number of grid steps and 10^unitExp steps    *)
(* make one unit of length, so unitExp = 0 is a scene whose coordinates    *)
(* are whole units (every tolerance of the program is far below one step)  *)
(* and unitExp = 4 is a scene drawn at the scale of the tolerances (one    *)
(* step is 1e-4, the BSP EPSILON).  A direction that the program           *)
(* normalises is kept as an integer vector together with its squared       *)
(* length, normalize() is the primitive integer vector of the same         *)
(* direction, and every comparison of a length or a distance with a        *)
(* tolerance is made exactly on the integers.  A point computed by a       *)
(* division (the split of an edge) is rounded to the nearest grid point,   *)
(* as f32 rounds to the nearest representable number.                      *)
(***************************************************************************)
EXTENDS Integers, Sequences, FiniteSets, TLC

VARIABLES
    unitExp,    \* grid steps per unit of length, as a power of ten
    a,          \* the host's first operand (a WasmMesh)
    b,          \* the host's second operand (a WasmMesh)
    arg,        \* the further argument of the last call (an Option)
    r,          \* the WasmMesh the last operator returned
    op,         \* the last operator the host called
    out,        \* what the last call into the BSP layer returned (an Option)
    cached,     \* the cells cached_vertices, cached_indices, cached_normals of r
    view,       \* the array the last accessor of r returned (an Option)
    loop_iteration  \* the iterations the loop of incremental_hull has begun

(***************************************************************************)
(* Integer helpers                                                         *)
(***************************************************************************)
Abs(x) == IF x < 0 THEN -x ELSE x

Sign(x) == IF x < 0 THEN -1 ELSE IF x > 0 THEN 1 ELSE 0

Min2(x, y) == IF x <= y THEN x ELSE y

Max2(x, y) == IF x >= y THEN x ELSE y

RECURSIVE Pow10(_)
Pow10(e) == IF e <= 0 THEN 1 ELSE 10 * Pow10(e - 1)

RECURSIVE Gcd(_, _)
Gcd(x, y) == IF y = 0 THEN x ELSE Gcd(y, x % y)

\* floor(sqrt(n)) for n >= 0
RECURSIVE Isqrt(_)
Isqrt(n) ==
    IF n < 2 THEN n
    ELSE LET s == 2 * Isqrt(n \div 4)
         IN  IF (s + 1) * (s + 1) <= n THEN s + 1 ELSE s

\* x / y rounded to the nearest integer (halves away from zero), y # 0
RoundDiv(x, y) ==
    Sign(x) * Sign(y) * ((2 * Abs(x) + Abs(y)) \div (2 * Abs(y)))

\* a value under a name: "let v = ...;" followed by the code F that uses v
With(v, F(_)) == F(v)

\* Option<T>: the empty sequence is None, <<v>> is Some(v)
None == <<>>

Some(v) == <<v>>

IsSome(o) == Len(o) = 1

Unwrap(o) == o[1]

\* the set of the elements of a sequence
Range(s) == { s[i] : i \in 1..Len(s) }

RECURSIVE Concat(_)
\* the lists of a list one after the other (extend, push in a loop); the
\* recursion halves the list, so that its depth stays small
Concat(ss) ==
    IF Len(ss) = 0 THEN <<>>
    ELSE IF Len(ss) = 1 THEN ss[1]
    ELSE Concat(SubSeq(ss, 1, Len(ss) \div 2))
         \o Concat(SubSeq(ss, Len(ss) \div 2 + 1, Len(ss)))

\* the elements s[j], j >= i, whose index satisfies Keep, in order
SelectSeqIdx(s, Keep(_), i) ==
    Concat([j \in 1..(Len(s) + 1 - i) |->
               IF Keep(j + i - 1) THEN <<s[j + i - 1]>> ELSE <<>>])

\* the least and the greatest number of a non-empty set
SetMin(S) == CHOOSE x \in S : \A y \in S : x <= y

SetMax(S) == CHOOSE x \in S : \A y \in S : x >= y

(***************************************************************************)
(* Tolerances.  A tolerance c * 10^-k of the program, in grid steps.       *)
(***************************************************************************)
\* |v| > c * 10^-k for a vector v of dimension length^dim (1 for a
\* difference of points, 2 for a cross product), given n2 = v . v.  The
\* tolerance in steps^dim is c * 10^(dim*unitExp - k): a whole number, or
\* below one
LenGt(n2, c, k, dim) ==
    IF dim * unitExp >= k
    THEN LET t == c * Pow10(dim * unitExp - k) IN n2 > t * t
    ELSE n2 > 0

\* |v| < c * 10^-k, likewise
LenLt(n2, c, k, dim) ==
    IF dim * unitExp >= k
    THEN LET t == c * Pow10(dim * unitExp - k) IN n2 < t * t
    ELSE n2 < 1

\* d / sqrt(n2) > 10^-k for a distance d / sqrt(n2) in steps (n2 > 0,
\* k >= unitExp): d * 10^(k - unitExp) > sqrt(n2), decided on the integers
DistGt(d, n2, k) == d > Isqrt(n2) \div Pow10(k - unitExp)

RECURSIVE CmpFrac(_, _, _, _)
\* the sign of x/y - z/w for x, z >= 0 and y, w > 0, by the continued
\* fractions of the two sides (no product is formed)
CmpFrac(x, y, z, w) ==
    IF x \div y # z \div w THEN Sign(x \div y - z \div w)
    ELSE IF x % y = 0 \/ z % w = 0 THEN Sign(x % y) - Sign(z % w)
    ELSE CmpFrac(w, z % w, y, x % y)

RECURSIVE MulDiv(_, _, _)
\* <<q, m>> with x * y = q * z + m and 0 <= m < z, for x, y >= 0 and
\* z > 0, by doubling (the product itself is never formed)
MulDiv(x, y, z) ==
    IF x = 0 THEN <<0, 0>>
    ELSE With(MulDiv(x \div 2, y, z), LAMBDA h :
             With(2 * h[2] + (x % 2) * y, LAMBDA t :
                 <<2 * h[1] + t \div z, t % z>>))

\* the sign of f * (2 * rt + f) - k for the fraction f = m / num < 1:
\* 2 * rt * f = g[1] + g[2] / num and f * f = (h[1] + h[2] / num) / num
RootTail(m, num, rt, k) ==
    With(MulDiv(2 * rt, m, num), LAMBDA g :
        With(MulDiv(m, m, num), LAMBDA h :
            With(g[1] - k + (g[2] + h[1]) \div num, LAMBDA whole :
                IF whole > 0 THEN 1
                ELSE IF whole < 0 THEN -1
                ELSE Sign(((g[2] + h[1]) % num) + h[2]))))

\* the sign of d / sqrt(n2) - num / den for d >= 0, n2 > 0, num, den > 0:
\* with X = d * den / num = s + f (s whole, 0 <= f < 1) and n2 = r*r + k
\* (r = floor(sqrt(n2))), X > sqrt(n2) iff s > r, or s = r and
\* f * (2r + f) > k
CmpDist(d, n2, num, den) ==
    With(MulDiv(d, den, num), LAMBDA x :
        With(Isqrt(n2), LAMBDA rt :
            IF x[1] > rt THEN 1
            ELSE IF x[1] < rt THEN -1
            ELSE RootTail(x[2], num, rt, n2 - rt * rt)))

(***************************************************************************)
(* Vec3 (math.rs)                                                          *)
(***************************************************************************)
Vec3(x, y, z) == <<x, y, z>>

Zero3 == <<0, 0, 0>>

Add3(u, v) == <<u[1] + v[1], u[2] + v[2], u[3] + v[3]>>

Sub3(u, v) == <<u[1] - v[1], u[2] - v[2], u[3] - v[3]>>

Scale3(u, f) == <<u[1] * f, u[2] * f, u[3] * f>>

Dot3(u, v) == u[1] * v[1] + u[2] * v[2] + u[3] * v[3]

Cross3(u, v) ==
    << u[2] * v[3] - u[3] * v[2],
       u[3] * v[1] - u[1] * v[3],
       u[1] * v[2] - u[2] * v[1] >>

\* the integer vector of the same direction with coprime components: the
\* model's unit vector v / |v|; the zero vector maps to the zero vector
Normalize3(v) ==
    LET g == Gcd(Gcd(Abs(v[1]), Abs(v[2])), Abs(v[3]))
    IN  IF Dot3(v, v) > 0
        THEN <<v[1] \div g, v[2] \div g, v[3] \div g>>
        ELSE Zero3

(***************************************************************************)
(* Plane, Polygon (bsp.rs).  A plane is kept as its integer normal n (the  *)
(* primitive vector of the unit normal's direction) and w = n . a, so the  *)
(* program's unit normal is n / |n|, its w is w / |n| and its signed       *)
(* distance is (n . p - w) / |n|.                                          *)
(***************************************************************************)
\* EPSILON = 1e-4, as the exponent k of 10^-k
EPSILON == 4

Plane(normal, w) == [normal |-> normal, w |-> w]

PlaneFromPoints(pa, pb, pc) ==
    With(Cross3(Sub3(pb, pa), Sub3(pc, pa)), LAMBDA normal :
        IF LenLt(Dot3(normal, normal), 1, EPSILON, 2)
        THEN None
        ELSE With(Normalize3(normal), LAMBDA unit :
                 Some(Plane(unit, Dot3(unit, pa)))))

PlaneFlip(plane) == Plane(Scale3(plane.normal, -1), -plane.w)

\* the signed distance times |plane.normal|
SignedDistance(plane, point) == Dot3(plane.normal, point) - plane.w

\* dist > EPSILON and dist < -EPSILON for the plane's signed distance
DistFront(plane, point) ==
    DistGt(SignedDistance(plane, point), Dot3(plane.normal, plane.normal), EPSILON)

DistBack(plane, point) ==
    DistGt(-SignedDistance(plane, point), Dot3(plane.normal, plane.normal), EPSILON)

ClassifyPoint(plane, point) ==
    IF DistBack(plane, point) THEN "Back"
    ELSE IF DistFront(plane, point) THEN "Front"
    ELSE "Coplanar"

Polygon(vertices, plane) == [vertices |-> vertices, plane |-> plane]

PolygonNew(vertices) ==
    IF Len(vertices) < 3 THEN None
    ELSE With(PlaneFromPoints(vertices[1], vertices[2], vertices[3]), LAMBDA plane :
             IF IsSome(plane) THEN Some(Polygon(vertices, Unwrap(plane)))
             ELSE None)

Reverse(s) == [i \in 1..Len(s) |-> s[Len(s) + 1 - i]]

\* a flip that turns the vertices round instead of reversing them
PolygonFlipByRotation(poly) ==
    Polygon(Tail(poly.vertices) \o <<Head(poly.vertices)>>, PlaneFlip(poly.plane))

PolygonFlip(poly) == Polygon(Reverse(poly.vertices), PlaneFlip(poly.plane))

\* t clamped to [0, 1], as the numerator over denom, for t = num / denom
ClampT(num, denom) ==
    IF Sign(num) * Sign(denom) < 0 THEN 0
    ELSE IF Abs(num) > Abs(denom) THEN denom
    ELSE num

\* vi + diff * (tn / denom), rounded to the grid
Lerp(vi, diff, tn, denom) ==
    <<vi[1] + RoundDiv(diff[1] * tn, denom),
      vi[2] + RoundDiv(diff[2] * tn, denom),
      vi[3] + RoundDiv(diff[3] * tn, denom)>>

\* the midpoint of the edge, whatever the plane
SplitPointAtMiddle(plane, vi, vj) == Lerp(vi, Sub3(vj, vi), 1, 2)

\* the point where the edge vi -> vj crosses the plane (split_by_plane's
\* inner branch): vi + diff * clamp(t, 0, 1) with t = (w - n . vi) / denom,
\* or the midpoint when |denom| <= EPSILON * 0.1
SplitPoint(plane, vi, vj) ==
    With(Sub3(vj, vi), LAMBDA diff :
    With(Dot3(plane.normal, diff), LAMBDA denom :
        IF DistGt(Abs(denom), Dot3(plane.normal, plane.normal), EPSILON + 1)
        THEN Lerp(vi, diff, ClampT(plane.w - Dot3(plane.normal, vi), denom), denom)
        ELSE Lerp(vi, diff, 1, 2)))

\* what one round i of the loop of split_by_plane pushes to one of its two
\* lists: the vertex, unless its class is skip ("Back" for front_verts,
\* "Front" for back_verts), and the crossing of the edge i -> j
EdgeVerts(vertices, classes, plane, skip, i, j) ==
    (IF classes[i] # skip THEN <<vertices[i]>> ELSE <<>>)
    \o (IF \/ classes[i] = "Front" /\ classes[j] = "Back"
           \/ classes[i] = "Back" /\ classes[j] = "Front"
        THEN <<SplitPoint(plane, vertices[i], vertices[j])>>
        ELSE <<>>)

\* front_verts (skip = "Back") and back_verts (skip = "Front") after the loop
SplitVerts(vertices, classes, plane, skip) ==
    Concat([i \in 1..Len(vertices) |->
               EdgeVerts(vertices, classes, plane, skip, i, (i % Len(vertices)) + 1)])

SplitResult(kind, poly, front, back) ==
    [kind |-> kind, poly |-> poly, front |-> front, back |-> back]

\* front_poly and back_poly of split_by_plane
SplitFragment(verts) == IF Len(verts) >= 3 THEN PolygonNew(verts) ELSE None

\* split_by_plane without the test of the direction of the normals
SplitWithoutDirectionTest(poly, plane) ==
    With([i \in 1..Len(poly.vertices) |-> ClassifyPoint(plane, poly.vertices[i])],
         LAMBDA classes :
        With(\E i \in 1..Len(classes) : classes[i] = "Front", LAMBDA has_front :
        With(\E i \in 1..Len(classes) : classes[i] = "Back", LAMBDA has_back :
            IF ~has_front /\ ~has_back
            THEN SplitResult("CoplanarFront", Some(poly), None, None)
            ELSE IF ~has_front THEN SplitResult("Back", Some(poly), None, None)
            ELSE IF ~has_back THEN SplitResult("Front", Some(poly), None, None)
            ELSE SplitResult("Split", None,
                     SplitFragment(SplitVerts(poly.vertices, classes, plane, "Back")),
                     SplitFragment(SplitVerts(poly.vertices, classes, plane, "Front"))))))

SplitByPlane(poly, plane) ==
    With([i \in 1..Len(poly.vertices) |-> ClassifyPoint(plane, poly.vertices[i])],
         LAMBDA classes :
        With(\E i \in 1..Len(classes) : classes[i] = "Front", LAMBDA has_front :
        With(\E i \in 1..Len(classes) : classes[i] = "Back", LAMBDA has_back :
            IF ~has_front /\ ~has_back
            THEN IF Dot3(poly.plane.normal, plane.normal) > 0
                 THEN SplitResult("CoplanarFront", Some(poly), None, None)
                 ELSE SplitResult("CoplanarBack", Some(poly), None, None)
            ELSE IF ~has_front THEN SplitResult("Back", Some(poly), None, None)
            ELSE IF ~has_back THEN SplitResult("Front", Some(poly), None, None)
            ELSE SplitResult("Split", None,
                     SplitFragment(SplitVerts(poly.vertices, classes, plane, "Back")),
                     SplitFragment(SplitVerts(poly.vertices, classes, plane, "Front"))))))

(***************************************************************************)
(* f32 arithmetic (IEEE 754 binary32, round to nearest, ties to even).  A  *)
(* finite f32 is the pair <<m, e>> of the value m * 2^e with               *)
(* 2^23 <= |m| < 2^24, or <<0, 0>>; subnormals, infinities and NaN are out *)
(* of the range of the inputs.                                             *)
(***************************************************************************)
RECURSIVE Pow2(_)
Pow2(k) == IF k <= 0 THEN 1 ELSE 2 * Pow2(k - 1)

RECURSIVE BitLen(_)
BitLen(n) == IF n = 0 THEN 0 ELSE 1 + BitLen(n \div 2)

\* the number of bits of an f32's significand
MANTISSA_DIGITS == 24

\* the f32 nearest to sign * (n + s) * 2^e, for an integer n >= 0 and a
\* fraction s that is 0 unless sticky, and then strictly between 0 and 1
F32Round(sign, n, sticky, e) ==
    IF n = 0 THEN <<0, 0>>
    ELSE LET k == BitLen(n) - MANTISSA_DIGITS
         IN  IF k <= 0 THEN <<sign * n * Pow2(-k), e + k>>
             ELSE LET q == n \div Pow2(k)
                      rem == n % Pow2(k)
                      half == Pow2(k - 1)
                      m == IF rem > half \/ (rem = half /\ (sticky \/ q % 2 = 1))
                           THEN q + 1 ELSE q
                  IN  IF m = Pow2(MANTISSA_DIGITS)
                      THEN <<sign * Pow2(MANTISSA_DIGITS - 1), e + k + 1>>
                      ELSE <<sign * m, e + k>>

\* an integer literal as f32 ("2.0", "x as f32")
F32(i) == F32Round(Sign(i), Abs(i), FALSE, 0)

F32Neg(x) == <<-x[1], x[2]>>

\* x * y: the 48-bit product of the significands by halves of 12 bits
F32Mul(x, y) ==
    LET h1 == Abs(x[1]) \div 4096
        l1 == Abs(x[1]) % 4096
        h2 == Abs(y[1]) \div 4096
        l2 == Abs(y[1]) % 4096
        mid == h1 * l2 + l1 * h2
        low == (mid % 4096) * 4096 + l1 * l2
        hi == h1 * h2 + mid \div 4096 + low \div 16777216
        lo == low % 16777216
    IN  F32Round(Sign(x[1]) * Sign(y[1]), hi * 64 + lo \div 262144,
                 lo % 262144 # 0, x[2] + y[2] + 18)

\* x + y for |x| of the exponent not below y's: y is brought to x's
\* exponent less 6 bits, what falls off it is the sticky fraction
F32AddAligned(x, y) ==
    LET d == x[2] - y[2]
        k == Min2(d - 6, MANTISSA_DIGITS + 1)
        ys == Sign(x[1]) * y[1]
    IN  IF d <= 6
        THEN F32Round(Sign(x[1] * Pow2(d) + y[1]),
                      Abs(x[1] * Pow2(d) + y[1]), FALSE, y[2])
        ELSE F32Round(Sign(x[1]),
                      Abs(x[1]) * 64
                          + (IF ys >= 0 THEN ys \div Pow2(k)
                             ELSE -((-ys + Pow2(k) - 1) \div Pow2(k))),
                      Abs(ys) % Pow2(k) # 0, x[2] - 6)

F32Add(x, y) ==
    IF x[1] = 0 THEN y
    ELSE IF y[1] = 0 THEN x
    ELSE IF x[2] >= y[2] THEN F32AddAligned(x, y)
    ELSE F32AddAligned(y, x)

F32Sub(x, y) == F32Add(x, F32Neg(y))

RECURSIVE LongDiv(_, _, _, _)
\* the quotient and the remainder of a long division by d after `steps`
\* more digits of 7 bits
LongDiv(quot, rest, d, steps) ==
    IF steps = 0 THEN <<quot, rest>>
    ELSE LongDiv(quot * 128 + (rest * 128) \div d, (rest * 128) % d, d, steps - 1)

\* x / y, y # 0
F32Div(x, y) ==
    LET qr == LongDiv(Abs(x[1]) \div Abs(y[1]), Abs(x[1]) % Abs(y[1]), Abs(y[1]), 4)
    IN  F32Round(Sign(x[1]) * Sign(y[1]), qr[1], qr[2] # 0, x[2] - y[2] - 28)

RECURSIVE RootDigits(_, _, _)
\* the root and the remainder of a square root after `steps` more bits
RootDigits(root, rem, steps) ==
    IF steps = 0 THEN <<root, rem>>
    ELSE IF 4 * rem >= 4 * root + 1
         THEN RootDigits(2 * root + 1, 4 * rem - (4 * root + 1), steps - 1)
         ELSE RootDigits(2 * root, 4 * rem, steps - 1)

\* sqrt(x), x >= 0
F32Sqrt(x) ==
    LET m == IF x[2] % 2 = 0 THEN x[1] ELSE 2 * x[1]
        e == IF x[2] % 2 = 0 THEN x[2] ELSE x[2] - 1
        rr == RootDigits(Isqrt(m), m - Isqrt(m) * Isqrt(m), 14)
    IN  F32Round(1, rr[1], rr[2] # 0, e \div 2 - 14)

F32Lt(x, y) == F32Sub(x, y)[1] < 0

F32Gt(x, y) == F32Sub(x, y)[1] > 0

F32Abs(x) == <<Abs(x[1]), x[2]>>

(***************************************************************************)
(* Plane and Polygon::split_by_plane in f32 (bsp.rs, math.rs): the same    *)
(* code as above in the arithmetic of the program, for inputs on which the *)
(* rounding of a dot product is of the size of EPSILON.  A vector is a     *)
(* triple of f32.                                                          *)
(***************************************************************************)
\* 1e-4, 0.1 and 0.5 as f32
EPSILON_F32 == <<13743895, -37>>

TENTH_F32 == <<13421773, -27>>

HALF_F32 == <<8388608, -24>>

Vec3F32(v) == <<F32(v[1]), F32(v[2]), F32(v[3])>>

AddF32(u, v) == <<F32Add(u[1], v[1]), F32Add(u[2], v[2]), F32Add(u[3], v[3])>>

SubtractF32(u, v) == <<F32Sub(u[1], v[1]), F32Sub(u[2], v[2]), F32Sub(u[3], v[3])>>

ScaleF32(u, factor) ==
    <<F32Mul(u[1], factor), F32Mul(u[2], factor), F32Mul(u[3], factor)>>

DotF32(u, v) ==
    F32Add(F32Add(F32Mul(u[1], v[1]), F32Mul(u[2], v[2])), F32Mul(u[3], v[3]))

CrossF32(u, v) ==
    << F32Sub(F32Mul(u[2], v[3]), F32Mul(u[3], v[2])),
       F32Sub(F32Mul(u[3], v[1]), F32Mul(u[1], v[3])),
       F32Sub(F32Mul(u[1], v[2]), F32Mul(u[2], v[1])) >>

LengthF32(u) == F32Sqrt(DotF32(u, u))

PlaneFromPointsF32(pa, pb, pc) ==
    With(CrossF32(SubtractF32(pb, pa), SubtractF32(pc, pa)), LAMBDA normal :
    With(LengthF32(normal), LAMBDA len :
        IF F32Lt(len, EPSILON_F32)
        THEN None
        ELSE With(ScaleF32(normal, F32Div(F32(1), len)), LAMBDA unit :
                 Some(Plane(unit, DotF32(unit, pa))))))

SignedDistanceF32(plane, point) == F32Sub(DotF32(plane.normal, point), plane.w)

ClassifyPointF32(plane, point) ==
    With(SignedDistanceF32(plane, point), LAMBDA dist :
        IF F32Lt(dist, F32Neg(EPSILON_F32)) THEN "Back"
        ELSE IF F32Gt(dist, EPSILON_F32) THEN "Front"
        ELSE "Coplanar")

PolygonNewF32(vertices) ==
    IF Len(vertices) < 3 THEN None
    ELSE With(PlaneFromPointsF32(vertices[1], vertices[2], vertices[3]), LAMBDA plane :
             IF IsSome(plane) THEN Some(Polygon(vertices, Unwrap(plane)))
             ELSE None)

\* t.clamp(0.0, 1.0)
ClampF32(t) ==
    IF F32Lt(t, F32(0)) THEN F32(0) ELSE IF F32Gt(t, F32(1)) THEN F32(1) ELSE t

\* the inner branch of split_by_plane for the edge vi -> vj: denom, t
\* before it is clamped (None in the midpoint branch) and the vertex v
\* that is pushed to both lists
CrossingF32(plane, vi, vj) ==
    With(SubtractF32(vj, vi), LAMBDA diff :
    With(DotF32(plane.normal, diff), LAMBDA denom :
        IF F32Gt(F32Abs(denom), F32Mul(EPSILON_F32, TENTH_F32))
        THEN With(F32Div(F32Sub(plane.w, DotF32(plane.normal, vi)), denom), LAMBDA t :
                 [denom |-> denom, t |-> Some(t),
                  v |-> AddF32(vi, ScaleF32(diff, ClampF32(t)))])
        ELSE [denom |-> denom, t |-> None,
              v |-> AddF32(vi, ScaleF32(diff, HALF_F32))]))

\* the edges i -> j the inner branch is entered for, as <<i, j>>
CrossingsOf(classes) ==
    SelectSeq([i \in 1..Len(classes) |-> <<i, (i % Len(classes)) + 1>>],
              LAMBDA e : \/ classes[e[1]] = "Front" /\ classes[e[2]] = "Back"
                         \/ classes[e[1]] = "Back" /\ classes[e[2]] = "Front")

\* front_verts (skip = "Back") and back_verts (skip = "Front") after the loop
SplitVertsF32(vertices, classes, plane, skip) ==
    Concat([i \in 1..Len(vertices) |->
        (IF classes[i] # skip THEN <<vertices[i]>> ELSE <<>>)
        \o (IF <<i, (i % Len(vertices)) + 1>> \in Range(CrossingsOf(classes))
            THEN <<CrossingF32(plane, vertices[i],
                               vertices[(i % Len(vertices)) + 1]).v>>
            ELSE <<>>)])

SplitFragmentF32(verts) == IF Len(verts) >= 3 THEN PolygonNewF32(verts) ELSE None

\* split_by_plane, with the classes and what the inner branch computed for
\* each edge it was entered for
SplitByPlaneF32(poly, plane) ==
    With([i \in 1..Len(poly.vertices) |-> ClassifyPointF32(plane, poly.vertices[i])],
         LAMBDA classes :
        With(\E i \in 1..Len(classes) : classes[i] = "Front", LAMBDA has_front :
        With(\E i \in 1..Len(classes) : classes[i] = "Back", LAMBDA has_back :
            [classes |-> classes,
             crossings |->
                 IF has_front /\ has_back
                 THEN [k \in 1..Len(CrossingsOf(classes)) |->
                          CrossingF32(plane,
                              poly.vertices[CrossingsOf(classes)[k][1]],
                              poly.vertices[CrossingsOf(classes)[k][2]])]
                 ELSE <<>>,
             result |->
                 IF ~has_front /\ ~has_back
                 THEN IF F32Gt(DotF32(poly.plane.normal, plane.normal), F32(0))
                      THEN SplitResult("CoplanarFront", Some(poly), None, None)
                      ELSE SplitResult("CoplanarBack", Some(poly), None, None)
                 ELSE IF ~has_front THEN SplitResult("Back", Some(poly), None, None)
                 ELSE IF ~has_back THEN SplitResult("Front", Some(poly), None, None)
                 ELSE SplitResult("Split", None,
                          SplitFragmentF32(SplitVertsF32(poly.vertices, classes, plane, "Back")),
                          SplitFragmentF32(SplitVertsF32(poly.vertices, classes, plane, "Front")))])))

(***************************************************************************)
(* BSPNode (bsp.rs)                                                        *)
(***************************************************************************)
MAX_BSP_DEPTH == 100

BSPNode(plane, front, back, polygons) ==
    [plane |-> plane, front |-> front, back |-> back, polygons |-> polygons]

EmptyNode == BSPNode(None, None, None, <<>>)

\* has_front and has_back of choose_splitting_plane's inner loop
HasFront(candidate, poly) ==
    \E i \in 1..Len(poly.vertices) : DistFront(candidate, poly.vertices[i])

HasBack(candidate, poly) ==
    \E i \in 1..Len(poly.vertices) : DistBack(candidate, poly.vertices[i])

\* the score choose_splitting_plane gives a candidate plane
PlaneScore(candidate, polygons) ==
    With(Cardinality({i \in 1..Len(polygons) : HasFront(candidate, polygons[i])}),
         LAMBDA fronts :
    With(Cardinality({i \in 1..Len(polygons) :
             HasFront(candidate, polygons[i]) /\ HasBack(candidate, polygons[i])}),
         LAMBDA split_count :
        Abs((fronts - split_count) - (Len(polygons) - fronts)) + split_count * 8))

\* the first polygon's plane among those of the least score
ChooseSplittingPlane(polygons) ==
    With([i \in 1..Len(polygons) |-> PlaneScore(polygons[i].plane, polygons)],
         LAMBDA score :
        polygons[CHOOSE i \in 1..Len(polygons) :
                     /\ \A j \in 1..Len(polygons) : score[i] <= score[j]
                     /\ \A j \in 1..(i - 1) : score[j] > score[i]].plane)

\* the polygon one round of a split loop pushes to one of its lists: whole
\* is the set of unsplit outcomes routed to the list, side names the
\* fragment of a split polygon routed to it ("front", "back" or "none")
Routed(s, whole, side) ==
    IF s.kind \in whole THEN s.poly
    ELSE IF s.kind = "Split" /\ side = "front" THEN s.front
    ELSE IF s.kind = "Split" /\ side = "back" THEN s.back
    ELSE <<>>

\* the split loop shared by build_with_depth and clip_polygons: the pieces
\* the loop pushes to one list, in the order it meets them
Pieces(polygons, plane, whole, side) ==
    Concat([j \in 1..Len(polygons) |->
               Routed(SplitByPlane(polygons[j], plane), whole, side)])

RECURSIVE BuildWithDepth(_, _, _)
\* a child built at the depth of its parent
ChildAtSameDepth(old, list, depth) ==
    IF list = <<>> THEN old
    ELSE Some(BuildWithDepth(IF IsSome(old) THEN Unwrap(old) ELSE EmptyNode,
                             list, depth))

\* the child after "if !list.is_empty() { ... build_with_depth(list, depth + 1) }"
Child(old, list, depth) ==
    IF list = <<>> THEN old
    ELSE Some(BuildWithDepth(IF IsSome(old) THEN Unwrap(old) ELSE EmptyNode,
                             list, depth + 1))

BuildWithDepth(node, polygons, depth) ==
    IF polygons = <<>> THEN node
    ELSE IF depth >= MAX_BSP_DEPTH
    THEN [node EXCEPT !.polygons = @ \o polygons]
    ELSE With(IF IsSome(node.plane) THEN Unwrap(node.plane)
              ELSE ChooseSplittingPlane(polygons),
              LAMBDA plane :
             BSPNode(Some(plane),
                     Child(node.front, Pieces(polygons, plane, {"Front"}, "front"),
                           depth),
                     Child(node.back, Pieces(polygons, plane, {"Back"}, "back"),
                           depth),
                     node.polygons
                     \o Pieces(polygons, plane,
                               {"CoplanarFront", "CoplanarBack"}, "none")))

Build(node, polygons) == BuildWithDepth(node, polygons, 0)

BSPNodeNew(polygons) ==
    IF polygons = <<>> THEN None ELSE Some(Build(EmptyNode, polygons))

RECURSIVE Invert(_)
Invert(node) ==
    BSPNode(IF IsSome(node.plane) THEN Some(PlaneFlip(Unwrap(node.plane))) ELSE None,
            IF IsSome(node.back) THEN Some(Invert(Unwrap(node.back))) ELSE None,
            IF IsSome(node.front) THEN Some(Invert(Unwrap(node.front))) ELSE None,
            [i \in 1..Len(node.polygons) |-> PolygonFlip(node.polygons[i])])

\* clip_polygons that discards nothing
ClipPolygonsKeepingAll(node, polygons) == polygons

RECURSIVE ClipPolygons(_, _)
\* clip_polygons that keeps the back list of a node without back child
ClipSideKeeping(child, list, keep) ==
    IF IsSome(child) THEN ClipPolygons(Unwrap(child), list) ELSE list

\* the front list is clipped by the front child, or kept when there is
\* none; the back list is clipped by the back child, or dropped
ClipSide(child, list, keep) ==
    IF IsSome(child) THEN ClipPolygons(Unwrap(child), list)
    ELSE IF keep THEN list
    ELSE <<>>

ClipPolygons(node, polygons) ==
    IF ~IsSome(node.plane) THEN polygons
    ELSE ClipSide(node.front,
                  Pieces(polygons, Unwrap(node.plane),
                         {"Front", "CoplanarFront"}, "front"),
                  TRUE)
         \o ClipSide(node.back,
                     Pieces(polygons, Unwrap(node.plane),
                            {"Back", "CoplanarBack"}, "back"),
                     FALSE)

RECURSIVE ClipTo(_, _)
ClipTo(node, bsp) ==
    BSPNode(node.plane,
            IF IsSome(node.front) THEN Some(ClipTo(Unwrap(node.front), bsp)) ELSE None,
            IF IsSome(node.back) THEN Some(ClipTo(Unwrap(node.back), bsp)) ELSE None,
            ClipPolygons(bsp, node.polygons))

RECURSIVE AllPolygons(_)
AllPolygons(node) ==
    node.polygons
    \o (IF IsSome(node.front) THEN AllPolygons(Unwrap(node.front)) ELSE <<>>)
    \o (IF IsSome(node.back) THEN AllPolygons(Unwrap(node.back)) ELSE <<>>)

\* the number of levels of the tree below the node
RECURSIVE Depth(_)
Depth(node) ==
    Max2(IF IsSome(node.front) THEN 1 + Depth(Unwrap(node.front)) ELSE 0,
         IF IsSome(node.back) THEN 1 + Depth(Unwrap(node.back)) ELSE 0)

RECURSIVE PointInside(_, _)
PointInside(node, point) ==
    IF ~IsSome(node.plane) THEN FALSE
    ELSE IF DistFront(Unwrap(node.plane), point)
    THEN IsSome(node.front) /\ PointInside(Unwrap(node.front), point)
    ELSE IF DistBack(Unwrap(node.plane), point)
    THEN ~IsSome(node.back) \/ PointInside(Unwrap(node.back), point)
    ELSE \/ IsSome(node.front) /\ PointInside(Unwrap(node.front), point)
         \/ ~IsSome(node.back)
         \/ PointInside(Unwrap(node.back), point)

(***************************************************************************)
(* Bounds, Mesh (geometry.rs).  Indices are the program's, counted from 0. *)
(***************************************************************************)
\* f32::INFINITY: above every coordinate of the model
INFINITY == 1000000000

Bounds(min, max) == [min |-> min, max |-> max]

BoundsNew == Bounds(<<INFINITY, INFINITY, INFINITY>>,
                    <<-INFINITY, -INFINITY, -INFINITY>>)

\* add_point for every vertex of the list: the componentwise minimum and
\* maximum of the bounds and the vertices
AddPoints(bounds, vertices) ==
    Bounds([c \in 1..3 |->
               SetMin({bounds.min[c]} \cup {vertices[i][c] : i \in 1..Len(vertices)})],
           [c \in 1..3 |->
               SetMax({bounds.max[c]} \cup {vertices[i][c] : i \in 1..Len(vertices)})])

\* Bounds::new() followed by add_point for every vertex
BoundsOf(vertices) == AddPoints(BoundsNew, vertices)

Mesh(vertices, indices, normals, bounds) ==
    [vertices |-> vertices, indices |-> indices,
     normals |-> normals, bounds |-> bounds]

\* the vertex the k-th index (k in 0..2) of triangle t names
Corner(vertices, indices, t, k) == vertices[indices[3 * (t - 1) + k + 1] + 1]

\* edge1 x edge2 of triangle t
FaceCross(vertices, indices, t) ==
    Cross3(Sub3(Corner(vertices, indices, t, 1), Corner(vertices, indices, t, 0)),
           Sub3(Corner(vertices, indices, t, 2), Corner(vertices, indices, t, 0)))

RECURSIVE SumVec3(_)
SumVec3(vs) ==
    IF Len(vs) = 0 THEN Zero3
    ELSE IF Len(vs) = 1 THEN vs[1]
    ELSE Add3(SumVec3(SubSeq(vs, 1, Len(vs) \div 2)),
              SumVec3(SubSeq(vs, Len(vs) \div 2 + 1, Len(vs))))

\* the sum of the unit face normals of the triangles t.. at vertex index v,
\* once for every corner of the triangle that names v.  The sum adds the
\* primitive vectors, which is the sum of the unit vectors up to a factor
\* when the face normals at a vertex have one length (they do for every
\* mesh of the model)
SumNormals(vertices, indices, v, t) ==
    SumVec3([u \in 1..(Len(indices) \div 3 + 1 - t) |->
                Scale3(Normalize3(FaceCross(vertices, indices, u + t - 1)),
                       Cardinality({k \in 0..2 :
                           indices[3 * (u + t - 2) + k + 1] = v}))])

CalculateNormals(vertices, indices) ==
    [v \in 1..Len(vertices) |->
        Normalize3(SumNormals(vertices, indices, v - 1, 1))]

MeshNew(vertices, indices) ==
    Mesh(vertices, indices, CalculateNormals(vertices, indices), BoundsOf(vertices))

VertexCount(mesh) == Len(mesh.vertices)

FaceCount(mesh) == Len(mesh.indices) \div 3

(***************************************************************************)
(* bsp::operations (bsp.rs)                                                *)
(***************************************************************************)
\* the triangles of the mesh that Polygon::new accepts, in order
MeshToPolygons(mesh) ==
    Concat([t \in 1..(Len(mesh.indices) \div 3) |->
               PolygonNew(<<Corner(mesh.vertices, mesh.indices, t, 0),
                            Corner(mesh.vertices, mesh.indices, t, 1),
                            Corner(mesh.vertices, mesh.indices, t, 2)>>)])

\* THIN_EPSILON = 1e-6 and MIN_TRIANGLE_AREA = 1e-8, as exponents of 10^-k
THIN_EPSILON == 6

MIN_TRIANGLE_AREA == 8

\* the fan of one polygon, as the list of its vertices three by three
FanVertices(poly) ==
    LET v == poly.vertices
        triangle_normal == Cross3(Sub3(v[2], v[1]), Sub3(v[3], v[1]))
        same_direction ==
            IF LenGt(Dot3(triangle_normal, triangle_normal), 1, THIN_EPSILON, 2)
            THEN Dot3(triangle_normal, poly.plane.normal) > 0
            ELSE TRUE
    IN  IF Len(v) < 3 THEN <<>>
        ELSE Concat([i \in 1..(Len(v) - 2) |->
                        IF same_direction THEN <<v[1], v[i + 1], v[i + 2]>>
                        ELSE <<v[1], v[i + 2], v[i + 1]>>])

\* area > MIN_TRIANGLE_AREA and len > 1e-12 for a triangle of cross product
\* cross: area = |cross| / 2 and len = |cross|
KeepsTriangle(cross) ==
    /\ LenGt(Dot3(cross, cross), 2, MIN_TRIANGLE_AREA, 2)
    /\ LenGt(Dot3(cross, cross), 1, 12, 2)

\* the triangles calculate_flat_normals keeps
ValidTriangles(mesh) ==
    SelectSeqIdx([t \in 1..(Len(mesh.indices) \div 3) |-> t],
                 LAMBDA t : KeepsTriangle(FaceCross(mesh.vertices, mesh.indices, t)),
                 1)

\* the three copies of a face normal
Thrice(n) == <<n, n, n>>

\* vertices, indices and normals are replaced by those of the kept
\* triangles; the bounds field is not touched
CalculateFlatNormals(mesh) ==
    With(ValidTriangles(mesh), LAMBDA valid :
        Mesh(Concat([j \in 1..Len(valid) |->
                        <<Corner(mesh.vertices, mesh.indices, valid[j], 0),
                          Corner(mesh.vertices, mesh.indices, valid[j], 1),
                          Corner(mesh.vertices, mesh.indices, valid[j], 2)>>]),
             [j \in 1..(3 * Len(valid)) |-> j - 1],
             Concat([j \in 1..Len(valid) |->
                        Thrice(Normalize3(FaceCross(mesh.vertices, mesh.indices,
                                                    valid[j])))]),
             mesh.bounds))

PolygonsToMesh(polygons) ==
    With(Concat([i \in 1..Len(polygons) |-> FanVertices(polygons[i])]),
         LAMBDA vertices :
        CalculateFlatNormals(MeshNew(vertices, [j \in 1..Len(vertices) |-> j - 1])))

EmptyMesh == MeshNew(<<>>, <<>>)

\* b.invert(); b.clip_to(a); b.invert()
ClipInverted(node, bsp) == Invert(ClipTo(Invert(node), bsp))

\* add_polygons that adds nothing
AddNoPolygons(node, list) == node

\* a.add_polygons(list)
AddPolygons(node, list) == [node EXCEPT !.polygons = @ \o list]

\* a variant of union without the early returns for empty polygon lists
UnionWithoutEarlyReturn(mesh_a, mesh_b) ==
    PolygonsToMesh(MeshToPolygons(mesh_a) \o MeshToPolygons(mesh_b))

BspUnion(mesh_a, mesh_b) ==
    With(MeshToPolygons(mesh_a), LAMBDA polys_a :
    With(MeshToPolygons(mesh_b), LAMBDA polys_b :
        IF polys_a = <<>> THEN mesh_b
        ELSE IF polys_b = <<>> THEN mesh_a
        ELSE With(Unwrap(BSPNodeNew(polys_b)), LAMBDA b0 :
             With(ClipTo(Unwrap(BSPNodeNew(polys_a)), b0), LAMBDA a1 :
                 PolygonsToMesh(AllPolygons(a1)
                                \o AllPolygons(ClipInverted(ClipTo(b0, a1), a1)))))))

\* a variant of poly_intersects_bounds that takes an overlap on one axis
\* for an intersection of the boxes
PolyIntersectsOnSomeAxis(poly, bb_min, bb_max) ==
    With(BoundsOf(poly.vertices), LAMBDA pb :
        \E c \in 1..3 : pb.max[c] >= bb_min[c] /\ pb.min[c] <= bb_max[c])

PolyIntersectsBounds(poly, bb_min, bb_max) ==
    With(BoundsOf(poly.vertices), LAMBDA pb :
        \A c \in 1..3 : pb.max[c] >= bb_min[c] /\ pb.min[c] <= bb_max[c])

\* a partition that passes no polygon through
PartitionAll(polygons, mesh, meets) == IF meets THEN polygons ELSE <<>>

\* the polygons of the list whose box meets (meets = TRUE) or misses the
\* bounds of the mesh
Partition(polygons, mesh, meets) ==
    SelectSeq(polygons, LAMBDA q :
        PolyIntersectsBounds(q, mesh.bounds.min, mesh.bounds.max) = meets)

BspDifference(mesh_a, mesh_b) ==
    With(MeshToPolygons(mesh_a), LAMBDA polys_a :
    With(MeshToPolygons(mesh_b), LAMBDA polys_b :
        IF polys_a = <<>> THEN EmptyMesh
        ELSE IF polys_b = <<>> THEN mesh_a
        ELSE With(Partition(polys_a, mesh_b, TRUE), LAMBDA a_clip :
             With(Partition(polys_b, mesh_a, TRUE), LAMBDA b_clip :
                 IF a_clip = <<>> THEN mesh_a
                 ELSE IF b_clip = <<>> THEN mesh_a
                 ELSE With(Unwrap(BSPNodeNew(b_clip)), LAMBDA b0 :
                      With(ClipTo(Invert(Unwrap(BSPNodeNew(a_clip))), b0), LAMBDA a1 :
                          PolygonsToMesh(
                              AllPolygons(Invert(AddPolygons(a1,
                                  AllPolygons(ClipInverted(ClipTo(b0, a1), a1)))))
                              \o Partition(polys_a, mesh_b, FALSE))))))))

BspIntersection(mesh_a, mesh_b) ==
    With(MeshToPolygons(mesh_a), LAMBDA polys_a :
    With(MeshToPolygons(mesh_b), LAMBDA polys_b :
        IF polys_a = <<>> \/ polys_b = <<>> THEN EmptyMesh
        ELSE With(Invert(Unwrap(BSPNodeNew(polys_a))), LAMBDA a0 :
             With(Invert(ClipTo(Unwrap(BSPNodeNew(polys_b)), a0)), LAMBDA b0 :
             With(ClipTo(a0, b0), LAMBDA a1 :
                 PolygonsToMesh(AllPolygons(Invert(AddPolygons(a1,
                     AllPolygons(ClipTo(b0, a1))))))))))) 

(***************************************************************************)
(* Mat4 (math.rs).  A matrix is its 16 entries m[0..15] in the program's   *)
(* order, here m[1..16], as integers over the common denominator den.      *)
(* The entries are numbers of units: a translation by x moves a point by   *)
(* x * 10^unitExp grid steps.                                              *)
(***************************************************************************)
Mat4(m, den) == [m |-> m, den |-> den]

Mat4New == Mat4(<<1, 0, 0, 0,  0, 1, 0, 0,  0, 0, 1, 0,  0, 0, 0, 1>>, 1)

Translation(x, y, z) ==
    Mat4(<<1, 0, 0, x,  0, 1, 0, y,  0, 0, 1, z,  0, 0, 0, 1>>, 1)

Mat4Scale(sx, sy, sz) ==
    Mat4(<<sx, 0, 0, 0,  0, sy, 0, 0,  0, 0, sz, 0,  0, 0, 0, 1>>, 1)

\* the matrix with the 16 entries of the array, in the array's order
FromArray(array) == Mat4(array, 1)

\* the first three of the four sums transform_point forms
TransformPoint(matrix, point) ==
    LET m == matrix.m
        t == Pow10(unitExp)
    IN  <<RoundDiv(m[1] * point[1] + m[2] * point[2] + m[3] * point[3] + m[4] * t,
                   matrix.den),
          RoundDiv(m[5] * point[1] + m[6] * point[2] + m[7] * point[3] + m[8] * t,
                   matrix.den),
          RoundDiv(m[9] * point[1] + m[10] * point[2] + m[11] * point[3] + m[12] * t,
                   matrix.den)>>

\* the determinant expression of inverse_transpose; M(i) is self.m[i]
InverseTransposeDet(matrix) ==
    LET M(i) == matrix.m[i + 1]
    IN  M(0) * (M(5) * M(10) * M(15) - M(6) * M(9) * M(14))
        - M(1) * (M(4) * M(10) * M(14) - M(5) * M(9) * M(13))
        + M(2) * (M(4) * M(11) * M(14) - M(8) * M(7) * M(13))
        - M(3) * (M(1) * M(2) * M(15) - M(0) * M(8) * M(13))

\* for a matrix of whole entries (den = 1); the result is over det
InverseTranspose(matrix) ==
    LET M(i) == matrix.m[i + 1]
        det == InverseTransposeDet(matrix)
    IN  IF Abs(det) * Pow10(6) < 1 THEN Mat4New
        ELSE Mat4(<< M(5) * M(10) * M(15) - M(6) * M(9) * M(14),
                     M(1) * M(10) * M(14) - M(5) * M(9) * M(13),
                     M(1) * M(6) * M(15) - M(2) * M(9) * M(13),
                     M(1) * M(2) * M(15) - M(0) * M(8) * M(13),
                     M(4) * M(9) * M(14) - M(5) * M(8) * M(12),
                     M(4) * M(11) * M(14) - M(1) * M(10) * M(13),
                     M(0) * M(10) * M(14) - M(2) * M(6) * M(15),
                     M(0) * M(9) * M(14) - M(1) * M(2) * M(15),
                     M(2) * M(7) * M(15) - M(6) * M(11) * M(13),
                     M(0) * M(11) * M(14) - M(1) * M(10) * M(15),
                     M(3) * M(11) * M(14) - M(2) * M(8) * M(12),
                     M(7) * M(11) * M(14) - M(6) * M(9) * M(13),
                     M(0) * M(8) * M(14) - M(4) * M(12) * M(15),
                     M(5) * M(9) * M(14) - M(1) * M(10) * M(15),
                     M(6) * M(9) * M(14) - M(2) * M(8) * M(13),
                     M(0) * M(2) * M(15) - M(3) * M(8) * M(13) >>,
                  det)

\* transform_vector is not part of math.rs; the specification gives it as
\* the linear 3x3 part of the matrix applied to the vector.  The result is
\* the vector times |den|: the caller normalises it
TransformVector(matrix, v) ==
    LET m == matrix.m
    IN  Scale3(<<m[1] * v[1] + m[2] * v[2] + m[3] * v[3],
                 m[5] * v[1] + m[6] * v[2] + m[7] * v[3],
                 m[9] * v[1] + m[10] * v[2] + m[11] * v[3]>>,
               Sign(matrix.den))

(***************************************************************************)
(* csg.rs                                                                  *)
(***************************************************************************)
\* a variant of union that copies the indices of mesh_b as they are
UnionWithoutOffset(mesh_a, mesh_b) ==
    MeshNew(mesh_a.vertices \o mesh_b.vertices, mesh_a.indices \o mesh_b.indices)

CsgUnion(mesh_a, mesh_b) ==
    LET offset == Len(mesh_a.vertices)
    IN  MeshNew(mesh_a.vertices \o mesh_b.vertices,
                mesh_a.indices
                \o [i \in 1..Len(mesh_b.indices) |-> mesh_b.indices[i] + offset])

\* a variant of union_into that does not extend the normals
UnionIntoWithoutNormals(target, additional) ==
    LET offset == Len(target.vertices)
    IN  Mesh(target.vertices \o additional.vertices,
             target.indices
             \o [i \in 1..Len(additional.indices) |-> additional.indices[i] + offset],
             target.normals,
             AddPoints(target.bounds, additional.vertices))

UnionInto(target, additional) ==
    LET offset == Len(target.vertices)
    IN  Mesh(target.vertices \o additional.vertices,
             target.indices
             \o [i \in 1..Len(additional.indices) |-> additional.indices[i] + offset],
             target.normals \o additional.normals,
             AddPoints(target.bounds, additional.vertices))

CsgDifference(mesh_a, mesh_b) == BspDifference(mesh_a, mesh_b)

CsgIntersection(mesh_a, mesh_b) == BspIntersection(mesh_a, mesh_b)

\* transformed_vertices
TransformPoints(vertices, matrix) ==
    [i \in 1..Len(vertices) |-> TransformPoint(matrix, vertices[i])]

\* transformed_normals, for normal_matrix = matrix.inverse_transpose()
TransformNormals(normals, normal_matrix) ==
    [i \in 1..Len(normals) |-> Normalize3(TransformVector(normal_matrix, normals[i]))]

TransformMesh(mesh, matrix) ==
    With(TransformPoints(mesh.vertices, matrix), LAMBDA transformed_vertices :
        Mesh(transformed_vertices,
             mesh.indices,
             TransformNormals(mesh.normals, InverseTranspose(matrix)),
             AddPoints(BoundsNew, transformed_vertices)))

\* transform_mesh_in_place leaves the same mesh in place of its argument
TransformMeshInPlace(mesh, matrix) ==
    With(TransformPoints(mesh.vertices, matrix), LAMBDA transformed_vertices :
        [mesh EXCEPT !.vertices = transformed_vertices,
                     !.normals = TransformNormals(mesh.normals,
                                                  InverseTranspose(matrix)),
                     !.bounds = AddPoints(BoundsNew, transformed_vertices)])

CsgTranslate(mesh, x, y, z) == TransformMesh(mesh, Translation(x, y, z))

CsgScale(mesh, sx, sy, sz) == TransformMesh(mesh, Mat4Scale(sx, sy, sz))

mirror_x(mesh) == CsgScale(mesh, -1, 1, 1)

mirror_y(mesh) == CsgScale(mesh, 1, -1, 1)

mirror_z(mesh) == CsgScale(mesh, 1, 1, -1)

CsgMultmatrix(mesh, matrix_array) == TransformMesh(mesh, FromArray(matrix_array))

(***************************************************************************)
(* hull.rs.  Point i of a point list is points[i]; the program's index is  *)
(* i - 1.  The adaptive eps is kept as eps * 10^EPSILON_LOOSE.             *)
(***************************************************************************)
\* EPSILON_TIGHT = 1e-7, EPSILON_LOOSE = 1e-4, EPSILON_GRID = 1e-5, as the
\* exponents k of 10^-k
EPSILON_TIGHT == 7

EPSILON_LOOSE == 4

EPSILON_GRID == 5

\* round(x / EPSILON_GRID) for each coordinate x = steps / 10^unitExp
QuantizePoint(v) == Scale3(v, Pow10(EPSILON_GRID - unitExp))

\* the fold of adaptive_epsilon: the largest |coordinate|, from 0
MaxCoord(points) ==
    SetMax({0} \cup {Abs(points[i][c]) : i \in 1..Len(points), c \in 1..3})

\* EPSILON_LOOSE * max(max_coord, 1.0), times 10^EPSILON_LOOSE, in steps
AdaptiveEpsilon(points) == Max2(MaxCoord(points), Pow10(unitExp))

\* dist > eps, dist >= eps for a distance d / sqrt(n2) in steps, d >= 0
DistGtEps(d, n2, eps) == CmpDist(d, n2, eps, Pow10(EPSILON_LOOSE)) > 0

\* |v| > eps and |v| < eps for a cross product v, n2 = v . v: the program
\* compares the product of two lengths with the length eps
CrossGtEps(n2, eps) ==
    CmpFrac(n2, Pow10(2 * unitExp), eps * eps, Pow10(2 * EPSILON_LOOSE)) > 0

CrossLtEps(n2, eps) ==
    CmpFrac(n2, Pow10(2 * unitExp), eps * eps, Pow10(2 * EPSILON_LOOSE)) < 0

\* the points whose grid cell no earlier point has
DedupPoints(points) ==
    SelectSeqIdx(points,
                 LAMBDA i : \A j \in 1..(i - 1) :
                     QuantizePoint(points[j]) # QuantizePoint(points[i]),
                 1)

\* a face: normal is the primitive vector of the unit normal's direction,
\* center3 is three times the center
ConflictFace(vertices, normal, center3, conflict_points, is_visible) ==
    [vertices |-> vertices, normal |-> normal, center3 |-> center3,
     conflict_points |-> conflict_points, is_visible |-> is_visible]

ConflictFaceNew(v0, v1, v2, points) ==
    With(Cross3(Sub3(points[v1], points[v0]), Sub3(points[v2], points[v0])),
         LAMBDA cross :
        IF LenLt(Dot3(cross, cross), 1, EPSILON_TIGHT, 2) THEN None
        ELSE Some(ConflictFace(<<v0, v1, v2>>, Normalize3(cross),
                               Add3(Add3(points[v0], points[v1]), points[v2]),
                               <<>>, FALSE)))

ConflictFaceNewFlipped(v0, v1, v2, points) == ConflictFaceNew(v0, v2, v1, points)

\* the face's signed distance of the point, times 3 * |face.normal|
FaceDistance(face, point) ==
    Dot3(face.normal, Sub3(Scale3(point, 3), face.center3))

\* !on_plane && dist > 0.0, for on_plane = |dist| < eps and dist the
\* distance d / (3 * sqrt(n2))
VisibleAt(d, n2, eps) ==
    d > 0 /\ CmpDist(d, n2, 3 * eps, Pow10(EPSILON_LOOSE)) >= 0

PointVisible(face, point, eps) ==
    VisibleAt(FaceDistance(face, point), Dot3(face.normal, face.normal), eps)

FaceEdge(face, idx) ==
    <<face.vertices[idx + 1], face.vertices[((idx + 1) % 3) + 1]>>

EdgeNew(x, y) == IF x < y THEN <<x, y>> ELSE <<y, x>>

\* min_by keeps the first of several least elements, max_by the last of
\* several greatest
FindMinX(points) ==
    CHOOSE i \in 1..Len(points) :
        /\ \A j \in 1..Len(points) : points[i][1] <= points[j][1]
        /\ \A j \in 1..(i - 1) : points[j][1] > points[i][1]

FindMaxX(points) ==
    CHOOSE i \in 1..Len(points) :
        /\ \A j \in 1..Len(points) : points[i][1] >= points[j][1]
        /\ \A j \in (i + 1)..Len(points) : points[j][1] < points[i][1]

\* the first index of the greatest Key among the candidates; None when
\* there is none: the scans "if dist > best_dist"
FirstGreatest(cand, Key(_)) ==
    IF cand = {} THEN None
    ELSE Some(CHOOSE i \in cand :
                  /\ \A j \in cand : Key(i) >= Key(j)
                  /\ \A j \in cand : j < i => Key(j) < Key(i))

\* the scan from best_dist = eps: the candidates are the indices outside
\* skip with Far(i), that is, with a distance above eps
FirstFarthest(n, skip, Far(_), Key(_)) ==
    FirstGreatest({i \in 1..n : i \notin skip /\ Far(i)}, Key)

\* |to_point x line_dir|^2 for the point and the line from p0
Perp2(point, p0, line_dir) ==
    With(Cross3(Sub3(point, p0), line_dir), LAMBDA c : Dot3(c, c))

FindPointFarthestFromLine(points, v0, v1, eps) ==
    With(Sub3(points[v1], points[v0]), LAMBDA line_dir :
        IF LenLt(Dot3(line_dir, line_dir), 1, EPSILON_TIGHT, 1) THEN None
        ELSE FirstFarthest(Len(points), {v0, v1},
                 LAMBDA i : CmpFrac(Perp2(points[i], points[v0], line_dir),
                                    Dot3(line_dir, line_dir),
                                    eps * eps, Pow10(2 * EPSILON_LOOSE)) > 0,
                 LAMBDA i : Perp2(points[i], points[v0], line_dir)))

\* the scan of find_point_farthest_from_plane for the plane's normal
FarthestAlong(points, normal, skip, p0, eps) ==
    FirstFarthest(Len(points), skip,
        LAMBDA i : DistGtEps(Abs(Dot3(normal, Sub3(points[i], p0))),
                             Dot3(normal, normal), eps),
        LAMBDA i : Abs(Dot3(normal, Sub3(points[i], p0))))

FindPointFarthestFromPlane(points, v0, v1, v2, eps) ==
    With(Cross3(Sub3(points[v1], points[v0]), Sub3(points[v2], points[v0])),
         LAMBDA cross :
        IF LenLt(Dot3(cross, cross), 1, EPSILON_TIGHT, 2) THEN None
        ELSE FarthestAlong(points, Normalize3(cross), {v0, v1, v2}, points[v0], eps))

\* face.normal.dot(to_centroid) > 0.0 for the centroid sum / count
TowardsCenter(face, sum, count) ==
    Dot3(face.normal, Sub3(Scale3(sum, 3), Scale3(face.center3, count))) > 0

\* four times the centroid of the points v
Sum4(v, points) ==
    Add3(Add3(points[v[1]], points[v[2]]), Add3(points[v[3]], points[v[4]]))

\* one face of a tetrahedron on the points v: the face of the configuration,
\* with the winding flipped when its normal points to the centroid of v
TetrahedronFace(config, v, points) ==
    With(ConflictFaceNew(config[1], config[2], config[3], points), LAMBDA face :
        IF IsSome(face) /\ TowardsCenter(Unwrap(face), Sum4(v, points), 4)
        THEN ConflictFaceNewFlipped(config[1], config[2], config[3], points)
        ELSE face)

\* the four face configurations of the tetrahedron v0 v1 v2 v3
FaceConfigs(v) ==
    << <<v[1], v[2], v[3]>>, <<v[1], v[4], v[2]>>,
       <<v[1], v[3], v[4]>>, <<v[2], v[4], v[3]>> >>

\* the fourth point l is off the plane of the first three, which are not
\* collinear
OffPlane(cross, to_point, eps) ==
    /\ ~CrossLtEps(Dot3(cross, cross), eps)
    /\ With(Normalize3(cross), LAMBDA normal :
            DistGtEps(Abs(Dot3(normal, to_point)), Dot3(normal, normal), eps))

\* the tetrahedra the fallback accepts: i < j < k not collinear, l off
\* their plane, and all four faces made
FallbackQuads(points, eps) ==
    {q \in (1..Min2(Len(points), 100)) \X (1..Min2(Len(points), 100))
           \X (1..Min2(Len(points), 100)) \X (1..Min2(Len(points), 100)) :
        /\ q[1] < q[2] /\ q[2] < q[3] /\ q[4] \notin {q[1], q[2], q[3]}
        /\ OffPlane(Cross3(Sub3(points[q[2]], points[q[1]]),
                           Sub3(points[q[3]], points[q[1]])),
                    Sub3(points[q[4]], points[q[1]]), eps)
        /\ \A c \in 1..4 : IsSome(ConflictFaceNew(FaceConfigs(q)[c][1],
                               FaceConfigs(q)[c][2], FaceConfigs(q)[c][3], points))}

\* q comes no later than p in the order of the four nested loops
LexLeq(q, p) ==
    \E c \in 1..5 : /\ \A e \in 1..(c - 1) : q[e] = p[e]
                    /\ c = 5 \/ q[c] < p[c]

\* a face of the fallback's tetrahedron: flipped when the flip is made
FallbackFace(config, v, points) ==
    With(TetrahedronFace(config, v, points), LAMBDA flipped :
        IF IsSome(flipped) THEN Unwrap(flipped)
        ELSE Unwrap(ConflictFaceNew(config[1], config[2], config[3], points)))

BuildInitialTetrahedronFallback(points, eps) ==
    With(FallbackQuads(points, eps), LAMBDA quads :
        IF quads = {} THEN None
        ELSE With(CHOOSE q \in quads : \A p \in quads : LexLeq(q, p), LAMBDA q :
                 Some([c \in 1..4 |-> FallbackFace(FaceConfigs(q)[c], q, points)])))

\* the faces on the four points v, or None when one of them is not made
TetrahedronFaces(v, points) ==
    With([c \in 1..4 |-> TetrahedronFace(FaceConfigs(v)[c], v, points)],
         LAMBDA faces :
        IF \E c \in 1..4 : ~IsSome(faces[c]) THEN None
        ELSE Some([c \in 1..4 |-> Unwrap(faces[c])]))

BuildInitialTetrahedron(points, eps) ==
    IF Len(points) < 4 THEN None
    ELSE With(FindMinX(points), LAMBDA v0 :
         With(FindMaxX(points), LAMBDA v1 :
             IF v0 = v1 THEN BuildInitialTetrahedronFallback(points, eps)
             ELSE With(FindPointFarthestFromLine(points, v0, v1, eps), LAMBDA v2 :
                      IF ~IsSome(v2) THEN None
                      ELSE With(FindPointFarthestFromPlane(points, v0, v1,
                                                           Unwrap(v2), eps),
                                LAMBDA v3 :
                               IF ~IsSome(v3) THEN None
                               ELSE TetrahedronFaces(<<v0, v1, Unwrap(v2), Unwrap(v3)>>,
                                                     points)))))

\* the conflict points of all faces with a positive distance, in the order
\* find_best_conflict_point meets them: <<face index, point, distance>>
ConflictCandidates(faces, points) ==
    Concat([fi \in 1..Len(faces) |->
               SelectSeq([c \in 1..Len(faces[fi].conflict_points) |->
                             <<fi, faces[fi].conflict_points[c],
                               FaceDistance(faces[fi],
                                            points[faces[fi].conflict_points[c]])>>],
                         LAMBDA t : t[3] > 0)])

\* the order of the squared distances d * d / n2 of two candidates
CmpSquares(x, n2x, y, n2y) ==
    IF x[1] # y[1] THEN Sign(x[1] - y[1]) ELSE CmpFrac(x[2], n2x, y[2], n2y)

\* the order of the distances of two candidates
CmpCandidates(faces, t, u) ==
    With(Dot3(faces[t[1]].normal, faces[t[1]].normal), LAMBDA n2t :
        With(Dot3(faces[u[1]].normal, faces[u[1]].normal), LAMBDA n2u :
            CmpSquares(MulDiv(t[3], t[3], n2t), n2t,
                       MulDiv(u[3], u[3], n2u), n2u)))

\* the first candidate of the greatest distance: <<apex, face index>>
FindBestConflictPoint(faces, points) ==
    With(ConflictCandidates(faces, points), LAMBDA cand :
        IF cand = <<>> THEN None
        ELSE With(CHOOSE i \in 1..Len(cand) :
                      /\ \A j \in 1..Len(cand) :
                             CmpCandidates(faces, cand[i], cand[j]) >= 0
                      /\ \A j \in 1..(i - 1) :
                             CmpCandidates(faces, cand[i], cand[j]) > 0,
                  LAMBDA best : Some(<<cand[best][2], cand[best][1]>>)))

\* the directed edges of the faces with is_visible = vis, in the order of
\* the faces and of their edges 0, 1, 2
FaceEdges(faces, vis) ==
    Concat([fi \in 1..Len(faces) |->
               IF faces[fi].is_visible = vis
               THEN <<FaceEdge(faces[fi], 0), FaceEdge(faces[fi], 1),
                      FaceEdge(faces[fi], 2)>>
               ELSE <<>>])

\* edge_info[edge]: the directed edges of the visible faces (their list
\* visible) on that edge
Occurrences(visible, edge) ==
    SelectSeq(visible, LAMBDA e : EdgeNew(e[1], e[2]) = edge)

\* the hash of a key of edge_info under the seed of the map's hasher
EdgeHash(edge, seed) == ((edge[1] * 5 + edge[2] * 3) * (seed + 1)) % 7

RECURSIVE HashOrder(_, _)
\* the keys in the order the map iterates them: by their hash
HashOrder(keys, seed) ==
    IF keys = {} THEN <<>>
    ELSE With(CHOOSE e \in keys : \A g \in keys :
                  \/ EdgeHash(e, seed) < EdgeHash(g, seed)
                  \/ /\ EdgeHash(e, seed) = EdgeHash(g, seed)
                     /\ e[1] < g[1] \/ (e[1] = g[1] /\ e[2] <= g[2]),
              LAMBDA first : <<first>> \o HashOrder(keys \ {first}, seed))

\* the reversed edge when the occurrences are one, nothing otherwise
HorizonOf(occurrences) ==
    IF Len(occurrences) = 1
    THEN << <<occurrences[1][2], occurrences[1][1]>> >>
    ELSE <<>>

\* Method 1: the edges of the hidden faces, in their order
HorizonMethod1(hidden, visible) ==
    Concat([i \in 1..Len(hidden) |->
               HorizonOf(Occurrences(visible, EdgeNew(hidden[i][1], hidden[i][2])))])

\* Method 2: the keys of edge_info, in the order the map iterates them
HorizonMethod2(visible, seed) ==
    With(HashOrder({EdgeNew(visible[i][1], visible[i][2]) : i \in 1..Len(visible)},
                   seed),
         LAMBDA keys :
        Concat([i \in 1..Len(keys) |-> HorizonOf(Occurrences(visible, keys[i]))]))

FindHorizonEdges(faces, seed) ==
    With(FaceEdges(faces, TRUE), LAMBDA visible :
    With(HorizonMethod1(FaceEdges(faces, FALSE), visible), LAMBDA horizon :
        IF horizon # <<>> THEN horizon
        ELSE HorizonMethod2(visible, seed)))

\* the sum of the points of the set and their number: the centroid is
\* their quotient
PointSum(points, indices) ==
    SumVec3(SelectSeqIdx(points, LAMBDA i : i \in indices, 1))

ComputeCentroid(points, indices) ==
    [sum |-> PointSum(points, indices), count |-> Cardinality(indices)]

\* the new face on a horizon edge (Step 3e), or None
NewFace(edge, apex, points, hull_center) ==
    With(ConflictFaceNew(edge[1], edge[2], apex, points), LAMBDA new_face :
        IF IsSome(new_face)
           /\ TowardsCenter(Unwrap(new_face), hull_center.sum, hull_center.count)
        THEN With(ConflictFaceNewFlipped(edge[1], edge[2], apex, points),
                  LAMBDA flipped : IF IsSome(flipped) THEN flipped ELSE new_face)
        ELSE new_face)

\* the state of the loop of incremental_hull
HullState(faces, processed, iteration) ==
    [faces |-> faces, processed |-> processed, iteration |-> iteration]

RECURSIVE SortedSeq(_)
\* a set of numbers as the ascending sequence
SortedSeq(set) ==
    IF set = {} THEN <<>>
    ELSE <<SetMin(set)>> \o SortedSeq(set \ {SetMin(set)})

\* every point of the list joins the conflict list of every face that sees
\* it
AssignConflictsToAll(faces, list, points, eps) ==
    [k \in 1..Len(faces) |->
        [faces[k] EXCEPT !.conflict_points =
            @ \o SelectSeq(list, LAMBDA pi :
                     PointVisible(faces[k], points[pi], eps))]]

\* every point of the list joins the conflict list of the first face that
\* sees it (Step 2 and Step 3f)
AssignConflicts(faces, list, points, eps) ==
    [k \in 1..Len(faces) |->
        [faces[k] EXCEPT !.conflict_points =
            @ \o SelectSeq(list, LAMBDA pi :
                     /\ PointVisible(faces[k], points[pi], eps)
                     /\ \A j \in 1..(k - 1) :
                            ~PointVisible(faces[j], points[pi], eps))]]

\* Step 3c: the conflict points of the visible faces that are neither the
\* apex nor processed, sorted, each once
Orphaned(faces, apex, processed) ==
    SortedSeq({pi \in UNION {{faces[i].conflict_points[c] :
                                c \in 1..Len(faces[i].conflict_points)} :
                            i \in {k \in 1..Len(faces) : faces[k].is_visible}} :
                  pi # apex /\ pi \notin processed})

\* Steps 3c to 3f for the faces marked and the horizon found
Rebuild(marked, horizon, apex, processed, points, eps) ==
    SelectSeq(marked, LAMBDA f : ~f.is_visible)
    \o AssignConflicts(
           Concat([i \in 1..Len(horizon) |->
                      NewFace(horizon[i], apex, points,
                              ComputeCentroid(points, processed))]),
           Orphaned(marked, apex, processed), points, eps)

\* Step 3a: every face marked visible or not from the apex
Marked(faces, apex_point, eps) ==
    [i \in 1..Len(faces) |->
        [faces[i] EXCEPT !.is_visible = PointVisible(faces[i], apex_point, eps)]]

\* the faces after one iteration of the loop that found the apex
StepFaces(marked, apex, processed, points, eps, seed) ==
    IF \A i \in 1..Len(marked) : ~marked[i].is_visible THEN marked
    ELSE With(FindHorizonEdges(marked, seed), LAMBDA horizon :
             IF horizon = <<>> THEN marked
             ELSE Rebuild(marked, horizon, apex, processed, points, eps))

\* one iteration of the loop of incremental_hull that found the apex
HullStep(st, apex, points, eps, seed) ==
    HullState(StepFaces(Marked(st.faces, points[apex], eps), apex,
                        st.processed \cup {apex}, points, eps, seed),
              st.processed \cup {apex}, st.iteration + 1)

\* an iteration limit of six times the number of points
max_iterations_doubled(points) == Len(points) * 6

\* max_iterations
max_iterations(points) == Len(points) * 3

RECURSIVE RunLoop(_, _, _, _)
\* the loop of incremental_hull, to its end: the iteration limit, or no
\* conflict point is left
RunLoop(st, points, eps, seed) ==
    IF st.iteration >= max_iterations(points) THEN st
    ELSE With(FindBestConflictPoint(st.faces, points), LAMBDA best :
             IF ~IsSome(best) THEN st
             ELSE RunLoop(HullStep(st, Unwrap(best)[1], points, eps, seed),
                          points, eps, seed))

\* tet_vertices
TetVertices(faces) ==
    UNION {{faces[i].vertices[c] : c \in 1..3} : i \in 1..Len(faces)}

\* Step 2 of incremental_hull: every point outside the tetrahedron joins
\* the conflict list of the first face that sees it
InitConflicts(faces, points, eps) ==
    HullState(AssignConflicts(faces,
                  SelectSeq([i \in 1..Len(points) |-> i],
                            LAMBDA pi : pi \notin TetVertices(faces)),
                  points, eps),
              TetVertices(faces), 0)

\* Step 4 of incremental_hull: the faces as a mesh
FacesToMesh(faces, points) ==
    IF faces = <<>> THEN None
    ELSE Some(MeshNew(Concat([i \in 1..Len(faces) |->
                                 <<points[faces[i].vertices[1]],
                                   points[faces[i].vertices[2]],
                                   points[faces[i].vertices[3]]>>]),
                      [j \in 1..(3 * Len(faces)) |-> j - 1]))

IncrementalHull(points, seed) ==
    IF Len(points) < 4 THEN None
    ELSE With(BuildInitialTetrahedron(points, AdaptiveEpsilon(points)),
              LAMBDA tetrahedron :
             IF ~IsSome(tetrahedron) THEN None
             ELSE FacesToMesh(RunLoop(InitConflicts(Unwrap(tetrahedron), points,
                                                    AdaptiveEpsilon(points)),
                                      points, AdaptiveEpsilon(points), seed).faces,
                              points))

\* |edge1 x edge2| > eps
Wide(cross, eps) == CrossGtEps(Dot3(cross, cross), eps)

\* the first i, then the first j > i, with |edge1 x edge2| > eps, for the
\* points after the first; <<>> when there is none
CoplanarPair(points, eps) ==
    With({q \in (2..Len(points)) \X (2..Len(points)) :
             /\ q[1] < q[2]
             /\ Wide(Cross3(Sub3(points[q[1]], points[1]),
                            Sub3(points[q[2]], points[1])), eps)},
         LAMBDA pairs :
        IF pairs = {} THEN <<>>
        ELSE CHOOSE q \in pairs : \A p \in pairs :
                 q[1] < p[1] \/ (q[1] = p[1] /\ q[2] <= p[2]))

\* the check of detect_coplanar_set that all points are on the plane
AllOnPlane(points, normal, eps) ==
    IF \E i \in 1..Len(points) :
           DistGtEps(Abs(Dot3(normal, Sub3(points[i], points[1]))),
                     Dot3(normal, normal), eps)
    THEN None
    ELSE Some(<<points[1], normal>>)

\* Some(<<plane_point, plane_normal>>) when all points are within eps of
\* the plane of the first wide triple
DetectCoplanarSet(points, eps) ==
    IF Len(points) < 3 THEN None
    ELSE With(CoplanarPair(points, eps), LAMBDA pair :
             IF pair = <<>> THEN Some(<<points[1], <<0, 0, 1>>>>)
             ELSE AllOnPlane(points,
                             Normalize3(Cross3(Sub3(points[pair[1]], points[1]),
                                               Sub3(points[pair[2]], points[1]))),
                             eps))

\* the axes u and v of the plane, each up to a positive factor;
\* |normal.x| < 0.9 for the unit normal is 100 nx^2 < 81 |n|^2
BuildPlaneBasis(normal) ==
    With(Normalize3(Cross3(normal,
             IF 100 * normal[1] * normal[1] < 81 * Dot3(normal, normal)
             THEN <<1, 0, 0>> ELSE <<0, 1, 0>>)),
         LAMBDA u : <<u, Normalize3(Cross3(normal, u))>>)

Cross2d(o, p, q) == (p[1] - o[1]) * (q[2] - o[2]) - (p[2] - o[2]) * (q[1] - o[1])

DistSq2d(p, q) == (q[1] - p[1]) * (q[1] - p[1]) + (q[2] - p[2]) * (q[2] - p[2])

RECURSIVE WrapNext(_, _, _, _)
\* the inner loop of convex_hull_2d from index i on (indices from 1; the
\* program's "next = 0" is next = 1)
WrapNext(points, current, next, i) ==
    IF i > Len(points) THEN next
    ELSE IF i = current THEN WrapNext(points, current, next, i + 1)
    ELSE IF next = current THEN WrapNext(points, current, i, i + 1)
    ELSE IF \/ Cross2d(points[current], points[next], points[i]) < 0
            \/ /\ Cross2d(points[current], points[next], points[i]) = 0
               /\ DistSq2d(points[current], points[i])
                      > DistSq2d(points[current], points[next])
    THEN WrapNext(points, current, i, i + 1)
    ELSE WrapNext(points, current, next, i + 1)

RECURSIVE Wrap(_, _, _, _)
Wrap(points, start, hull, current) ==
    With(WrapNext(points, current, 1, 1), LAMBDA next :
        IF next = start THEN hull
        ELSE IF Len(hull) + 1 > Len(points) THEN Append(hull, next)
        ELSE Wrap(points, start, Append(hull, next), next))

\* the first of the points of the least (x, y)
Leftmost(points) ==
    CHOOSE i \in 1..Len(points) :
        \A j \in 1..Len(points) :
            \/ points[i][1] < points[j][1]
            \/ /\ points[i][1] = points[j][1]
               /\ points[i][2] < points[j][2]
                  \/ (points[i][2] = points[j][2] /\ i <= j)

\* the gift wrapping from the point start
WrapFrom(points, start) == Wrap(points, start, <<start>>, start)

ConvexHull2d(points) ==
    IF Len(points) < 3 THEN [i \in 1..Len(points) |-> i]
    ELSE WrapFrom(points, Leftmost(points))

\* the points in the coordinates of the plane's basis
Project(points, plane_point, basis) ==
    [i \in 1..Len(points) |->
        <<Dot3(Sub3(points[i], plane_point), basis[1]),
          Dot3(Sub3(points[i], plane_point), basis[2])>>]

\* the fan of the 2D hull from its first vertex
HullFan(points, hull_indices) ==
    IF Len(hull_indices) < 3 THEN MeshNew(points, <<>>)
    ELSE MeshNew(Concat([i \in 1..(Len(hull_indices) - 2) |->
                            <<points[hull_indices[1]], points[hull_indices[i + 1]],
                              points[hull_indices[i + 2]]>>]),
                 [j \in 1..(3 * (Len(hull_indices) - 2)) |-> j - 1])

HullCoplanarPoints(points, plane_point, plane_normal) ==
    IF Len(points) < 3 THEN MeshNew(points, <<>>)
    ELSE HullFan(points,
                 ConvexHull2d(Project(points, plane_point,
                                      BuildPlaneBasis(plane_normal))))

\* the first draws of perturb_points' generator (seed 12345, multiplier
\* 6364136223846793005, increment 1, modulo 2^64), each as
\* ((seed >> 32) / u32::MAX - 0.5) * 1000 rounded to a whole number
LcgPermille ==
    << -469, 9, -467, -270, 219, -311, 344, 139, 146, -88, 279, -348,
       318, -331, -275, -375, 190, 354, -281, -87, 99, 276, -482, 199,
       450, 241, 194, -249, -233, 290, 383, -304, -308, -311, 421, -245,
       -488, 494, 142, -83, -85, -455, -154, -401, 188, 69, 95, -60 >>

\* the offset r = (draw - 0.5) * EPSILON_TIGHT * 10 of draw number k, in
\* grid steps: permille * 10^-3 * 10^-(EPSILON_TIGHT - 1) units
PerturbOffset(k) ==
    RoundDiv(LcgPermille[k] * Pow10(unitExp), Pow10(EPSILON_TIGHT + 2))

PerturbPoints(points) ==
    [i \in 1..Len(points) |->
        <<points[i][1] + PerturbOffset(3 * i - 2),
          points[i][2] + PerturbOffset(3 * i - 1),
          points[i][3] + PerturbOffset(3 * i)>>]

\* compute_hull's validation of an attempt
ValidHull(attempt) ==
    /\ IsSome(attempt)
    /\ Len(Unwrap(attempt).vertices) >= 4
    /\ Len(Unwrap(attempt).indices) >= 4

\* a variant of the fallback chain that gives up with an empty mesh
FallbackChainToEmpty(mesh, first, second) ==
    IF ValidHull(first) THEN Unwrap(first)
    ELSE IF ValidHull(second) THEN Unwrap(second)
    ELSE MeshNew(<<>>, <<>>)

\* the two attempts of the fallback chain and the mesh that is given back
\* when both fail
FallbackChain(mesh, first, second) ==
    IF ValidHull(first) THEN Unwrap(first)
    ELSE IF ValidHull(second) THEN Unwrap(second)
    ELSE mesh

\* compute_hull after the deduplication; seed stands for the iteration
\* order of the hash maps of this run
HullOfPoints(mesh, points, coplanar, seed) ==
    IF IsSome(coplanar)
    THEN HullCoplanarPoints(points, Unwrap(coplanar)[1], Unwrap(coplanar)[2])
    ELSE IF Len(points) < 4 THEN mesh
    ELSE FallbackChain(mesh, IncrementalHull(points, seed),
                       IncrementalHull(PerturbPoints(points), seed))

ComputeHull(mesh, seed) ==
    IF Len(mesh.vertices) < 4 THEN mesh
    ELSE With(DedupPoints(mesh.vertices), LAMBDA points :
             HullOfPoints(mesh, points,
                          DetectCoplanarSet(points, AdaptiveEpsilon(points)), seed))

HullMeshes(meshes, seed) ==
    With(Concat([i \in 1..Len(meshes) |-> meshes[i].vertices]), LAMBDA all_vertices :
        IF all_vertices = <<>> THEN MeshNew(<<>>, <<>>)
        ELSE ComputeHull(MeshNew(all_vertices, <<>>), seed))

(***************************************************************************)
(* minkowski.rs                                                            *)
(***************************************************************************)
Minkowski(mesh_a, mesh_b, seed) ==
    IF mesh_a.vertices = <<>> /\ mesh_b.vertices = <<>> THEN MeshNew(<<>>, <<>>)
    ELSE With(mesh_a.vertices \o mesh_b.vertices, LAMBDA combined_vertices :
             IF combined_vertices = <<>> THEN MeshNew(<<>>, <<>>)
             ELSE ComputeHull(MeshNew(combined_vertices, <<>>), seed))

(***************************************************************************)
(* WasmMesh and its constructors (lib.rs)                                  *)
(***************************************************************************)
WasmMesh(mesh, color, modifier, object_id) ==
    [mesh |-> mesh, color |-> color, modifier |-> modifier, object_id |-> object_id]

create_wasm_mesh(mesh) == WasmMesh(mesh, None, None, None)

create_wasm_mesh_with_color(mesh, color) == WasmMesh(mesh, color, None, None)

create_wasm_mesh_with_modifier(mesh, color, modifier, object_id) ==
    WasmMesh(mesh, color, modifier, object_id)

(***************************************************************************)
(* The host.  It holds the operands a and b of its call and the mesh r the *)
(* call returned; op names the function called ("none" before the call).   *)
(* The operands come from a catalogue; every solid of the catalogue is     *)
(* closed and convex.                                                      *)
(***************************************************************************)
\* the tetrahedron with corner o and legs of length s along the axes,
\* faces wound outwards
Tetrahedron(o, s) ==
    MeshNew(<<o, Add3(o, <<s, 0, 0>>), Add3(o, <<0, s, 0>>), Add3(o, <<0, 0, s>>)>>,
            <<0, 2, 1, 0, 1, 3, 0, 3, 2, 1, 2, 3>>)

\* primitives::cube(size) for an even size: the cube of that edge length
\* around the origin
Cube(size) ==
    LET half == size \div 2
    IN  MeshNew(<< <<-half, -half, half>>, <<half, -half, half>>,
                   <<half, half, half>>, <<-half, half, half>>,
                   <<-half, -half, -half>>, <<-half, half, -half>>,
                   <<half, half, -half>>, <<half, -half, -half>> >>,
                << 0, 1, 2, 0, 2, 3,  4, 5, 6, 4, 6, 7,  3, 2, 6, 3, 6, 5,
                   4, 0, 1, 4, 1, 7,  1, 7, 6, 1, 6, 2,  4, 5, 3, 4, 3, 0 >>)

\* a mesh of points without faces
PointCloud(points) == MeshNew(points, <<>>)

\* one triangle
Triangle(p, q, s) == MeshNew(<<p, q, s>>, <<0, 1, 2>>)

\* a triangle of no area
Degenerate == Triangle(<<0, 0, 0>>, <<1, 0, 0>>, <<2, 0, 0>>)

Scenario(e, mesh_a, mesh_b) == [unitExp |-> e, a |-> mesh_a, b |-> mesh_b]

\* operands of the boolean operations and of the transformations
Scenarios ==
    << \* overlapping solids
       Scenario(0, Tetrahedron(<<0, 0, 0>>, 4), Tetrahedron(<<1, 1, 1>>, 4)),
       \* solids with disjoint bounding boxes
       Scenario(0, Tetrahedron(<<0, 0, 0>>, 4), Tetrahedron(<<6, 0, 0>>, 2)),
       \* a solid strictly inside another one
       Scenario(0, Tetrahedron(<<0, 0, 0>>, 12), Tetrahedron(<<1, 1, 1>>, 4)),
       \* a mesh without vertices on either side
       Scenario(0, MeshNew(<<>>, <<>>), Tetrahedron(<<0, 0, 0>>, 4)),
       Scenario(0, Tetrahedron(<<0, 0, 0>>, 4), MeshNew(<<>>, <<>>)),
       \* a mesh whose only triangle is degenerate, on either side
       Scenario(0, Degenerate, Tetrahedron(<<0, 0, 0>>, 4)),
       Scenario(0, Tetrahedron(<<0, 0, 0>>, 4), Degenerate),
       Scenario(0, Degenerate, MeshNew(<<>>, <<>>)),
       \* a long triangle cut by the plane x = 0 next to one of its corners
       Scenario(4, Triangle(<<2, 0, 0>>, <<-2, 2, 0>>, <<20000, -20000, 0>>),
                   Triangle(<<0, 0, -115>>, <<0, -100, 115>>, <<0, -200, -115>>)),
       \* a degenerate mesh and a solid with disjoint bounding boxes
       Scenario(0, Degenerate, Tetrahedron(<<6, 6, 6>>, 2)),
       \* a solid and an identical copy at the same position
       Scenario(0, Tetrahedron(<<0, 0, 0>>, 4), Tetrahedron(<<0, 0, 0>>, 4)),
       \* a cube and a smaller cube that cuts a notch out of its corner
       Scenario(0, Cube(20), CsgTranslate(Cube(10), 5, 5, 5)) >>

\* operands of the hull operations
HullScenarios ==
    << Scenario(0, Tetrahedron(<<0, 0, 0>>, 4), Tetrahedron(<<1, 1, 1>>, 4)),
       Scenario(0, Tetrahedron(<<0, 0, 0>>, 12), Tetrahedron(<<1, 1, 1>>, 4)),
       Scenario(0, MeshNew(<<>>, <<>>), Tetrahedron(<<0, 0, 0>>, 4)),
       Scenario(0, MeshNew(<<>>, <<>>), MeshNew(<<>>, <<>>)),
       Scenario(0, Degenerate, Tetrahedron(<<0, 0, 0>>, 4)),
       \* coplanar points
       Scenario(0, PointCloud(<<<<0, 0, 0>>, <<4, 0, 0>>, <<4, 4, 0>>, <<0, 4, 0>>,
                                <<2, 2, 0>>>>),
                   Triangle(<<0, 0, 0>>, <<4, 0, 0>>, <<0, 4, 0>>)),
       \* a needle: thinner than the adaptive tolerance
       Scenario(0, PointCloud(<<<<0, 0, 0>>, <<2, 0, 0>>, <<0, 1, 1>>,
                                <<0, 20000, 0>>>>),
                   MeshNew(<<>>, <<>>)),
       \* a flat cloud, a few tolerances thick
       Scenario(4, PointCloud(<<<<55, 50, 1>>, <<-10, 55, -3>>, <<7, -55, -2>>,
                                <<-50, -9, 0>>, <<-55, 55, 1>>>>),
                   MeshNew(<<>>, <<>>)),
       \* a far point and a cluster a few tolerances wide
       Scenario(4, PointCloud(<<<<-2, 1, 0>>, <<0, 4, 1>>, <<0, -2, 1>>,
                                <<2000, 0, 0>>, <<-1, 3, -3>>, <<-2, 2, -1>>,
                                <<0, 4, 3>>, <<-2, -4, 4>>>>),
                   MeshNew(<<>>, <<>>)) >>

\* the colour, modifier and object id of the first operand
MetaA ==
    { <<None, None, None>>,
      <<Some("red"), None, None>>,
      <<Some("red"), Some("#"), Some("obj-a")>> }

\* the operands of a call: a scenario of the session's grid, a with the
\* metadata ma
Operands(scenarios) ==
    { [a |-> WasmMesh(scenarios[i].a, ma[1], ma[2], ma[3]),
       b |-> WasmMesh(scenarios[i].b, Some("blue"), Some("%"), Some("obj-b"))] :
        i \in {j \in 1..Len(scenarios) : scenarios[j].unitExp = unitExp},
        ma \in MetaA }

\* the translations and the scale factors the host passes, in units
Offsets == { <<1, 0, 0>>, <<0, 2, 3>> }

Factors == { <<2, 2, 2>>, <<1, 2, 3>>, <<-1, 1, 1>> }

\* the 16-entry arrays the host passes to multmatrix: a shear, a
\* projection onto the plane x = 0, a matrix whose first two rows are
\* equal, and one whose linear part has rank one
MatrixArrays ==
    { <<1, 1, 0, 0,  0, 1, 0, 0,  0, 0, 1, 0,  0, 0, 0, 1>>,
      <<0, 0, 0, 0,  0, 1, 0, 0,  0, 0, 1, 0,  0, 0, 0, 1>>,
      <<1, 1, 0, 0,  1, 1, 0, 0,  0, 0, 1, 0,  0, 0, 0, 1>>,
      <<1, 1, 1, 0,  1, 1, 1, 0,  1, 1, 1, 0,  0, 0, 0, 1>> }

\* the largest iteration-order seed of a hull run
MaxSeed == 3

\* the polygon lists the BSP layer is given: the triangles of the first
\* mesh of a scenario, of the second, and of the second and the first
PolygonLists ==
    { list \in UNION { { MeshToPolygons(Scenarios[i].a),
                         MeshToPolygons(Scenarios[i].b),
                         MeshToPolygons(Scenarios[i].b) \o MeshToPolygons(Scenarios[i].a) } :
                       i \in {j \in 1..Len(Scenarios) : Scenarios[j].unitExp = unitExp} } :
        list # <<>> }

\* n faces of a convex cone: the triangles from the apex (0, 0, 1) to the
\* edges of the convex arc (x, x^2, 0), x = 1 - n .. 1; every face has all
\* the other faces on one side of its plane, and the last faces are the
\* ones next to the origin
Cone(n) ==
    MeshNew(<<<<0, 0, 1>>>> \o [i \in 1..(n + 1) |-> <<i - n, (i - n) * (i - n), 0>>],
            Concat([i \in 1..n |-> <<0, i, i + 1>>]))

\* three parallel triangles, one above the other
Shelves ==
    MeshNew(<<<<0, 0, 0>>, <<4, 0, 0>>, <<0, 4, 0>>,
              <<0, 0, 1>>, <<4, 0, 1>>, <<0, 4, 1>>,
              <<0, 0, 2>>, <<4, 0, 2>>, <<0, 4, 2>>>>,
            <<0, 1, 2, 3, 4, 5, 6, 7, 8>>)

\* the lists choose_splitting_plane is called with
PlaneLists ==
    PolygonLists \cup (IF unitExp = 0 THEN {MeshToPolygons(Shelves)} ELSE {})

\* the trees BSPNode::new makes of the lists
Trees == { Unwrap(BSPNodeNew(list)) : list \in PolygonLists }

\* the polygons split_by_plane is called on: the triangles of the lists
\* and the fragments a tree built from a list keeps
SplitPolygons(list) ==
    Range(list) \cup Range(AllPolygons(Unwrap(BSPNodeNew(list))))

\* the planes split_by_plane is called with: the planes of the polygons of
\* the list, and of the flipped polygons
SplitPlanes(list) ==
    UNION { { list[i].plane, PlaneFlip(list[i].plane) } : i \in 1..Len(list) }

\* further polygons, with three and with four vertices
SplitCasePolygons ==
    IF unitExp = 0
    THEN { <<<<0, 0, 0>>, <<4, 0, 0>>, <<0, 4, 0>>>>,
           <<<<0, 0, 0>>, <<4, 0, 0>>, <<4, 4, 0>>, <<0, 4, 0>>>> }
    ELSE { <<<<0, 0, 0>>, <<200, 0, 0>>, <<0, 200, 0>>>>,
           <<<<0, 0, 0>>, <<200, 0, 0>>, <<200, 200, 0>>, <<0, 200, 0>>>> }

\* further planes: through a vertex, through two vertices, between the
\* vertices, and at one and at two tolerances from a vertex
SplitCasePlanes ==
    IF unitExp = 0
    THEN { Plane(<<1, -1, 0>>, 0), Plane(<<1, 1, 0>>, 4), Plane(<<1, 0, 0>>, 2),
           Plane(<<0, 0, 1>>, 0) }
    ELSE { Plane(<<1, -1, 0>>, 0), Plane(<<1, 0, 0>>, 1), Plane(<<1, 0, 0>>, 2),
           Plane(<<3, 1, 0>>, 100), Plane(<<-1, 0, 0>>, -199) }

\* a polygon and a plane for every polygon and every plane of a list, and
\* the further ones
SplitInputs ==
    UNION { SplitPolygons(list) \X SplitPlanes(list) : list \in PolygonLists }
    \cup ({ Unwrap(PolygonNew(vertices)) : vertices \in SplitCasePolygons }
              \X SplitCasePlanes)

\* polygons of integer coordinates in the hundreds, in units: a
\* parallelogram of the edges (1, 4, -3) and (3, 2, 2), and a triangle at
\* the origin
SplitPolygonsF32 ==
    { <<<<766, -749, -564>>, <<767, -745, -567>>, <<770, -743, -565>>,
        <<769, -747, -562>>>>,
      <<<<0, 0, 0>>, <<4, 0, 0>>, <<0, 4, 0>>>> }

\* the three points of a polygon whose plane is the splitting plane: a
\* triangle of the same two edges in the plane of the parallelogram, and
\* the planes x = 768 and x = 1
SplitPlanesF32 ==
    { <<<<750, -763, -571>>, <<751, -759, -574>>, <<753, -761, -569>>>>,
      <<<<768, 0, 0>>, <<768, 1, 0>>, <<768, 0, 1>>>>,
      <<<<1, 0, 0>>, <<1, 1, 0>>, <<1, 0, 1>>>> }

\* the vertices of a list as vectors of f32
VerticesF32(list) == [i \in 1..Len(list) |-> Vec3F32(list[i])]

\* the lists and the depths build_with_depth is called with on a fresh
\* node: the lists at depth 0, and the last four faces of a cone of
\* MAX_BSP_DEPTH + 2 faces, which are the faces of Cone(4), two levels above
\* the depth limit, where the build of the cone arrives after it has kept
\* one face at every level
BuildInputs ==
    (PolygonLists \X {0})
    \cup (IF unitExp = 0
          THEN { <<MeshToPolygons(Cone(4)), MAX_BSP_DEPTH - 2>> }
          ELSE {})

\* a tree and a list clip_polygons is called with: the tree of one mesh of
\* a scenario, as built or inverted, or a node as build_with_depth leaves it
\* at the depth limit, and the triangles of either mesh
ClipInputs ==
    UNION { { Unwrap(BSPNodeNew(MeshToPolygons(Scenarios[i].a))),
              Invert(Unwrap(BSPNodeNew(MeshToPolygons(Scenarios[i].b)))),
              BuildWithDepth(EmptyNode, MeshToPolygons(Scenarios[i].a), MAX_BSP_DEPTH) }
            \X { MeshToPolygons(Scenarios[i].a), MeshToPolygons(Scenarios[i].b) } :
            i \in { j \in 1..Len(Scenarios) :
                       /\ Scenarios[j].unitExp = unitExp
                       /\ MeshToPolygons(Scenarios[j].a) # <<>>
                       /\ MeshToPolygons(Scenarios[j].b) # <<>> } }

vars == <<unitExp, a, b, arg, r, op, out, cached, view, loop_iteration>>

\* OnceCell::new() in each of the three cells of a WasmMesh
NewCells == [vertices |-> None, indices |-> None, normals |-> None]

\* a session works on one grid: the unit itself (unitExp = 0), or
\* 10^-EPSILON of a unit, where the tolerances of the program are whole
\* numbers of steps
Init ==
    /\ unitExp \in {0, EPSILON}
    /\ arg = None
    /\ a = create_wasm_mesh(MeshNew(<<>>, <<>>))
    /\ b = create_wasm_mesh(MeshNew(<<>>, <<>>))
    /\ r = create_wasm_mesh(MeshNew(<<>>, <<>>))
    /\ op = "none"
    /\ out = None
    /\ cached = NewCells
    /\ view = None
    /\ loop_iteration = 0

\* the host has made no call yet
Idle == op = "none"

\* the call name(x.a, x.b) with the further argument y returns result
Return(name, x, y, result) ==
    /\ a' = x.a
    /\ b' = x.b
    /\ arg' = y
    /\ r' = result
    /\ op' = name
    /\ cached' = NewCells
    /\ view' = None
    /\ UNCHANGED <<unitExp, out, loop_iteration>>

\* the call name(y) into the BSP layer returns value
ReturnOut(name, y, value) ==
    /\ arg' = y
    /\ out' = Some(value)
    /\ op' = name
    /\ UNCHANGED <<unitExp, a, b, r, cached, view, loop_iteration>>

\* Mesh::to_vertices_array, to_normals_array: x, y, z of every entry in turn
to_vertices_array(mesh) == Concat(mesh.vertices)

to_normals_array(mesh) == Concat(mesh.normals)

\* Mesh::to_indices_array
to_indices_array(mesh) == mesh.indices

\* OnceCell::get_or_init: the cell after the call
get_or_init(cell, value) == IF IsSome(cell) THEN cell ELSE Some(value)

\* the modifiers and the object ids the host sets
Modifiers == {None, Some("#")}

ObjectIds == {None, Some("id")}

\* a set_modifier that also replaces the mesh by an empty one
set_modifier_and_clear(w, modifier) ==
    [w EXCEPT !.modifier = modifier, !.mesh = MeshNew(<<>>, <<>>)]

set_modifier(w, modifier) == [w EXCEPT !.modifier = modifier]

set_object_id(w, object_id) == [w EXCEPT !.object_id = object_id]

\* the result with the metadata of the mesh from
WithMetaOf(from, mesh) ==
    create_wasm_mesh_with_modifier(mesh, from.color, from.modifier, from.object_id)

(***************************************************************************)
(* The host-facing functions (lib.rs) and the library functions behind     *)
(* them, one action each: the call and its return.                         *)
(***************************************************************************)
Union ==
    /\ Idle
    /\ \E x \in Operands(Scenarios) :
           Return("union", x, None,
                  WithMetaOf(x.a, CsgUnion(x.a.mesh, x.b.mesh)))

Difference ==
    /\ Idle
    /\ \E x \in Operands(Scenarios) :
           Return("difference", x, None,
                  WithMetaOf(x.a, CsgDifference(x.a.mesh, x.b.mesh)))

Intersection ==
    /\ Idle
    /\ \E x \in Operands(Scenarios) :
           Return("intersection", x, None,
                  WithMetaOf(x.a, CsgIntersection(x.a.mesh, x.b.mesh)))

Hull ==
    /\ Idle
    /\ \E x \in Operands(HullScenarios), seed \in 0..MaxSeed :
           Return("hull", x, Some(seed),
                  WithMetaOf(x.a, ComputeHull(x.a.mesh, seed)))

HullTwo ==
    /\ Idle
    /\ \E x \in Operands(HullScenarios), seed \in 0..MaxSeed :
           Return("hull_two", x, Some(seed),
                  WithMetaOf(x.a, HullMeshes(<<x.a.mesh, x.b.mesh>>, seed)))

HullProgressive ==
    /\ Idle
    /\ \E x \in Operands(HullScenarios), seed \in 0..MaxSeed :
           Return("hull_progressive", x, Some(seed),
                  WithMetaOf(x.a, HullMeshes(<<x.a.mesh, x.b.mesh>>, seed)))

HostMinkowski ==
    /\ Idle
    /\ \E x \in Operands(HullScenarios), seed \in 0..MaxSeed :
           Return("minkowski", x, Some(seed),
                  create_wasm_mesh_with_color(Minkowski(x.a.mesh, x.b.mesh, seed),
                                              x.a.color))

Translate ==
    /\ Idle
    /\ \E x \in Operands(Scenarios), t \in Offsets :
           Return("translate", x, Some(t),
                  WithMetaOf(x.a, CsgTranslate(x.a.mesh, t[1], t[2], t[3])))

HostScale ==
    /\ Idle
    /\ \E x \in Operands(Scenarios), f \in Factors :
           Return("scale", x, Some(f),
                  WithMetaOf(x.a, CsgScale(x.a.mesh, f[1], f[2], f[3])))

MirrorX ==
    /\ Idle
    /\ \E x \in Operands(Scenarios) :
           Return("mirror_x", x, None, WithMetaOf(x.a, mirror_x(x.a.mesh)))

MirrorY ==
    /\ Idle
    /\ \E x \in Operands(Scenarios) :
           Return("mirror_y", x, None, WithMetaOf(x.a, mirror_y(x.a.mesh)))

MirrorZ ==
    /\ Idle
    /\ \E x \in Operands(Scenarios) :
           Return("mirror_z", x, None, WithMetaOf(x.a, mirror_z(x.a.mesh)))

Multmatrix ==
    /\ Idle
    /\ \E x \in Operands(Scenarios), matrix \in MatrixArrays :
           Return("multmatrix", x, Some(matrix),
                  WithMetaOf(x.a, CsgMultmatrix(x.a.mesh, matrix)))

\* csg::union_into(target, additional): r is the target afterwards
HostUnionInto ==
    /\ Idle
    /\ \E x \in Operands(Scenarios) :
           Return("union_into", x, None,
                  [x.a EXCEPT !.mesh = UnionInto(x.a.mesh, x.b.mesh)])

\* csg::transform_mesh_in_place: r is the mesh afterwards
HostTransformInPlace ==
    /\ Idle
    /\ \E x \in Operands(Scenarios),
          m \in {Translation(t[1], t[2], t[3]) : t \in Offsets}
                \cup {Mat4Scale(f[1], f[2], f[3]) : f \in Factors} :
           Return("transform_mesh_in_place", x, Some(m),
                  [x.a EXCEPT !.mesh = TransformMeshInPlace(x.a.mesh, m)])

\* bsp::operations::union
HostBspUnion ==
    /\ Idle
    /\ \E x \in Operands(Scenarios) :
           Return("bsp_union", x, None,
                  create_wasm_mesh(BspUnion(x.a.mesh, x.b.mesh)))

\* Polygon::split_by_plane
CallSplitByPlane ==
    /\ Idle
    /\ \E input \in SplitInputs :
           ReturnOut("split_by_plane", Some(input),
                     SplitByPlane(input[1], input[2]))

\* Polygon::split_by_plane in f32, on a polygon and the plane of a polygon
CallSplitByPlaneF32 ==
    /\ Idle
    /\ unitExp = 0
    /\ \E vertices \in SplitPolygonsF32, points \in SplitPlanesF32 :
           ReturnOut("split_by_plane_f32", Some(<<vertices, points>>),
                     SplitByPlaneF32(
                         Unwrap(PolygonNewF32(VerticesF32(vertices))),
                         Unwrap(PolygonNewF32(VerticesF32(points))).plane))

\* BSPNode::new
CallBSPNodeNew ==
    /\ Idle
    /\ \E list \in PolygonLists :
           ReturnOut("bsp_new", Some(list), Unwrap(BSPNodeNew(list)))

\* BSPNode::invert, on a tree as built and on an inverted tree
CallInvert ==
    /\ Idle
    /\ \E tree \in Trees, inverted \in BOOLEAN :
           ReturnOut("invert", Some(IF inverted THEN Invert(tree) ELSE tree),
                     IF inverted THEN Invert(Invert(tree)) ELSE Invert(tree))

\* BSPNode::clip_polygons
CallClipPolygons ==
    /\ Idle
    /\ \E input \in ClipInputs :
           ReturnOut("clip_polygons", Some(input),
                     ClipPolygons(input[1], input[2]))

\* BSPNode::choose_splitting_plane
CallChooseSplittingPlane ==
    /\ Idle
    /\ \E list \in PlaneLists :
           ReturnOut("choose_splitting_plane", Some(list),
                     ChooseSplittingPlane(list))

\* BSPNode::build_with_depth on a fresh node
CallBuildWithDepth ==
    /\ Idle
    /\ \E input \in BuildInputs :
           ReturnOut("build_with_depth", Some(input),
                     BuildWithDepth(EmptyNode, input[1], input[2]))

\* the point lists incremental_hull is called with: the corners of a cube
\* with points on, in and outside it; and, a few tolerances wide next to a
\* far point, a cluster with a point next to the line of an edge of the
\* first tetrahedron and a cluster whose faces come to point inwards
LoopClouds ==
    IF unitExp = 0
    THEN { << <<-2, -2, -2>>, <<2, -2, -2>>, <<-2, 2, -2>>, <<2, 2, -2>>,
              <<-2, -2, 2>>, <<2, -2, 2>>, <<-2, 2, 2>>, <<2, 2, 2>>,
              <<0, 0, 3>>, <<3, 1, 0>>, <<1, 0, 0>>, <<0, 1, 2>> >> }
    ELSE { << <<2, -1, -3>>, <<3, -4, 2>>, <<2, -4, 3>>, <<-3, 0, -3>>,
              <<3, 3, 3>>, <<-2000, 0, 0>> >>,
           << <<-2, 2, -3>>, <<-1, 0, 3>>, <<-4, 4, -2>>, <<0, 1, -3>>,
              <<3, 1, 4>>, <<-2, -1, 4>>, <<0, 2, -4>>, <<2000, 0, 0>>,
              <<2, -4, 3>> >> }

\* the points, the tolerance and the map order of the running loop
loop_points == Unwrap(arg)[1]

loop_eps == AdaptiveEpsilon(loop_points)

loop_seed == Unwrap(arg)[2]

\* the apex find_best_conflict_point gives for the faces of the loop
loop_best == FindBestConflictPoint(Unwrap(out).faces, loop_points)

\* incremental_hull up to the loop: eps, the tetrahedron, the conflict lists
StartHull ==
    /\ Idle
    /\ \E points \in LoopClouds, seed \in 0..MaxSeed :
           ReturnOut("hull_loop", Some(<<points, seed>>),
                     InitConflicts(Unwrap(BuildInitialTetrahedron(points,
                                              AdaptiveEpsilon(points))),
                                   points, AdaptiveEpsilon(points)))

\* one iteration of the loop of incremental_hull
IterateHull ==
    /\ op = "hull_loop"
    /\ loop_iteration < max_iterations(loop_points)
    /\ IsSome(loop_best)
    /\ loop_iteration' = loop_iteration + 1
    /\ out' = Some(HullStep(Unwrap(out), Unwrap(loop_best)[1], loop_points,
                            loop_eps, loop_seed))
    /\ UNCHANGED <<unitExp, a, b, arg, r, op, cached, view>>

\* the loop of incremental_hull ends, at the limit or by the break, and
\* Step 4 makes the mesh of the faces
ExitHull ==
    /\ op = "hull_loop"
    /\ \/ loop_iteration >= max_iterations(loop_points)
       \/ ~IsSome(loop_best)
    /\ ReturnOut("hull_exit", arg,
                 [faces |-> Unwrap(out).faces,
                  processed |-> Unwrap(out).processed,
                  iteration |-> Unwrap(out).iteration,
                  mesh |-> FacesToMesh(Unwrap(out).faces, loop_points)])

\* the sizes of the cubes the host creates
CubeSizes == {2, 4}

\* create_cube
CreateCube ==
    /\ Idle
    /\ \E size \in CubeSizes :
           Return("create_cube", [a |-> a, b |-> b], Some(size),
                  create_wasm_mesh(Cube(size)))

\* the host holds the WasmMesh r that create_cube returned
Held ==
    op \in {"create_cube", "vertices", "indices", "normals",
            "set_modifier", "set_object_id"}

\* an accessor of r returned the array and left the cells as given
Read(name, cells, array) ==
    /\ cached' = cells
    /\ view' = Some(array)
    /\ op' = name
    /\ UNCHANGED <<unitExp, a, b, arg, r, out, loop_iteration>>

\* a setter of r returned and left the WasmMesh as given
Written(name, w) ==
    /\ r' = w
    /\ op' = name
    /\ UNCHANGED <<unitExp, a, b, arg, out, cached, view, loop_iteration>>

\* WasmMesh::vertices
Vertices ==
    /\ Held
    /\ LET cell == get_or_init(cached.vertices, to_vertices_array(r.mesh))
       IN  Read("vertices", [cached EXCEPT !.vertices = cell], Unwrap(cell))

\* WasmMesh::indices
Indices ==
    /\ Held
    /\ LET cell == get_or_init(cached.indices, to_indices_array(r.mesh))
       IN  Read("indices", [cached EXCEPT !.indices = cell], Unwrap(cell))

\* WasmMesh::normals
Normals ==
    /\ Held
    /\ LET cell == get_or_init(cached.normals, to_normals_array(r.mesh))
       IN  Read("normals", [cached EXCEPT !.normals = cell], Unwrap(cell))

\* WasmMesh::set_modifier
SetModifier ==
    /\ Held
    /\ \E modifier \in Modifiers : Written("set_modifier", set_modifier(r, modifier))

\* WasmMesh::set_object_id
SetObjectId ==
    /\ Held
    /\ \E object_id \in ObjectIds : Written("set_object_id", set_object_id(r, object_id))

Next ==
    \/ Union
    \/ Difference
    \/ Intersection
    \/ Hull
    \/ HullTwo
    \/ HullProgressive
    \/ HostMinkowski
    \/ Translate
    \/ HostScale
    \/ MirrorX
    \/ MirrorY
    \/ MirrorZ
    \/ Multmatrix
    \/ HostUnionInto
    \/ HostTransformInPlace
    \/ HostBspUnion
    \/ CallSplitByPlane
    \/ CallSplitByPlaneF32
    \/ CallBSPNodeNew
    \/ CallInvert
    \/ CallClipPolygons
    \/ CallChooseSplittingPlane
    \/ CallBuildWithDepth
    \/ CreateCube
    \/ Vertices
    \/ Indices
    \/ Normals
    \/ SetModifier
    \/ SetObjectId
    \/ StartHull
    \/ IterateHull
    \/ ExitHull

Spec == Init /\ [][Next]_vars

\* the calls of incremental_hull alone
HullNext ==
    \/ StartHull
    \/ IterateHull
    \/ ExitHull

\* the loop begins an iteration: the limit is not reached and a conflict
\* point has a positive distance to its face
LoopRuns ==
    /\ op = "hull_loop"
    /\ loop_iteration < max_iterations(loop_points)
    /\ ConflictCandidates(Unwrap(out).faces, loop_points) # <<>>
    /\ loop_iteration' = loop_iteration + 1

\* the loop is left
LoopExits ==
    /\ op = "hull_loop"
    /\ \/ loop_iteration >= max_iterations(loop_points)
       \/ ConflictCandidates(Unwrap(out).faces, loop_points) = <<>>
    /\ op' = "hull_exit"

\* the loop of incremental_hull is sequential code: when it can begin an
\* iteration it does, and when it can be left it is
LiveSpec ==
    Init /\ [][HullNext]_vars /\ WF_loop_iteration(LoopRuns) /\ WF_op(LoopExits)

(***************************************************************************)
(* Properties of the operators                                             *)
(***************************************************************************)
\* the polygon lists the boolean operations make of the operands
polys_a == MeshToPolygons(a.mesh)

polys_b == MeshToPolygons(b.mesh)

\* two boxes that share no point
BoxesApart(p, q) == \E c \in 1..3 : p.max[c] < q.min[c] \/ p.min[c] > q.max[c]

\* no polygon of the list has a bounding box that meets the bounds
NoneMeets(polygons, bounds) ==
    \A i \in 1..Len(polygons) : BoxesApart(BoundsOf(polygons[i].vertices), bounds)

\* the operands of the bounding-box short-circuit of difference
ShortCircuit ==
    \/ NoneMeets(polys_a, b.mesh.bounds)
    \/ NoneMeets(polys_b, a.mesh.bounds)
    \/ BoxesApart(a.mesh.bounds, b.mesh.bounds)

\* the mesh x has the vertices and the indices (so the faces) of y
Unchanged(x, y) == x.vertices = y.vertices /\ x.indices = y.indices

\* C1, as the program has it: difference(A, B) returns A unchanged when no
\* polygon of A has a bounding box meeting B's bounds, or none of B meets
\* A's, provided A has a non-degenerate polygon at all
C1_ShortCircuitKeepsA ==
    op = "difference" /\ ShortCircuit /\ polys_a # <<>>
        => Unchanged(r.mesh, a.mesh)

\* C1 as stated: difference(A, B) returns A unchanged whenever no polygon
\* of A has a bounding box meeting B's bounds, or none of B meets A's, in
\* particular for meshes with disjoint bounding boxes
C1_ShortCircuitAlwaysKeepsA ==
    op = "difference" /\ ShortCircuit => Unchanged(r.mesh, a.mesh)

\* a difference of two solids with polygons whose boxes do not meet
C1_Witness ==
    /\ op = "difference"
    /\ polys_a # <<>> /\ polys_b # <<>>
    /\ NoneMeets(polys_a, b.mesh.bounds)
    /\ Unchanged(r.mesh, a.mesh)

\* C2, as the program has it: union(A, empty) = A and difference(A, empty)
\* = A for A with a non-degenerate polygon, union(empty, B) = B,
\* difference(empty, B) and every intersection with an empty operand are
\* the empty mesh; empty is a mesh without a non-degenerate polygon
C2_EmptyOperandLaws ==
    /\ op = "bsp_union" /\ polys_b = <<>> /\ polys_a # <<>> => r.mesh = a.mesh
    /\ op = "bsp_union" /\ polys_a = <<>> => r.mesh = b.mesh
    /\ op = "difference" /\ polys_b = <<>> /\ polys_a # <<>> => r.mesh = a.mesh
    /\ op = "difference" /\ polys_a = <<>> => r.mesh = EmptyMesh
    /\ op = "intersection" /\ (polys_a = <<>> \/ polys_b = <<>>)
           => r.mesh = EmptyMesh

\* C2 as stated: for every A and B, union(A, empty) = A, difference(A,
\* empty) = A, difference(empty, B) is the empty mesh and so is every
\* intersection with an empty operand
C2_EmptyOperandLawsForEveryMesh ==
    /\ op = "bsp_union" /\ polys_b = <<>> => r.mesh = a.mesh
    /\ op = "difference" /\ polys_b = <<>> => r.mesh = a.mesh
    /\ op = "difference" /\ polys_a = <<>> => r.mesh = EmptyMesh
    /\ op = "intersection" /\ (polys_a = <<>> \/ polys_b = <<>>)
           => r.mesh = EmptyMesh

\* a union of a solid with a mesh that has only a degenerate triangle
C2_Witness ==
    /\ op = "bsp_union"
    /\ polys_a # <<>> /\ polys_b = <<>> /\ b.mesh.vertices # <<>>
    /\ r.mesh = a.mesh

\* every edge of every triangle runs the other way in some triangle
ClosedSolid(mesh) ==
    /\ mesh.indices # <<>>
    /\ \A t \in 1..FaceCount(mesh), k \in 0..2 :
           \E u \in 1..FaceCount(mesh), l \in 0..2 :
               /\ mesh.indices[3 * (u - 1) + l + 1]
                      = mesh.indices[3 * (t - 1) + ((k + 1) % 3) + 1]
               /\ mesh.indices[3 * (u - 1) + ((l + 1) % 3) + 1]
                      = mesh.indices[3 * (t - 1) + k + 1]

\* the three corners of triangle t of the mesh are behind the plane of
\* every polygon of the list: strictly inside the convex solid they bound
StrictlyInside(mesh, t, polygons) ==
    \A k \in 0..2, i \in 1..Len(polygons) :
        DistBack(polygons[i].plane, Corner(mesh.vertices, mesh.indices, t, k))

\* C3: the host's union(a, b) of two closed solids holds no polygon that
\* lies strictly inside one of the operands, as the clip protocol of the
\* BSP union leaves none
C3_UnionHasNoInnerPolygon ==
    op = "union" /\ ClosedSolid(a.mesh) /\ ClosedSolid(b.mesh)
        => \A t \in 1..FaceCount(r.mesh) :
               /\ ~StrictlyInside(r.mesh, t, polys_a)
               /\ ~StrictlyInside(r.mesh, t, polys_b)

\* the Mesh invariants the claim names
MeshInvariants(mesh) ==
    /\ Len(mesh.indices) % 3 = 0
    /\ \A i \in 1..Len(mesh.indices) :
           mesh.indices[i] >= 0 /\ mesh.indices[i] < Len(mesh.vertices)
    /\ Len(mesh.normals) = Len(mesh.vertices)

\* C4: the mesh an operator returns for operands that satisfy the Mesh
\* invariants has a multiple of three indices, each below the number of
\* vertices, and as many normals as vertices
C4_MeshInvariants ==
    MeshInvariants(a.mesh) /\ MeshInvariants(b.mesh) => MeshInvariants(r.mesh)

\* a difference that went through the BSP trees and polygons_to_mesh
C4_Witness ==
    /\ op = "difference"
    /\ MeshInvariants(a.mesh) /\ MeshInvariants(b.mesh)
    /\ r.mesh.indices # <<>>
    /\ ~Unchanged(r.mesh, a.mesh)

\* C5: the bounds of the mesh an operator returns are the coordinate-wise
\* minimum and maximum of its vertices
C5_BoundsOfVertices == r.mesh.bounds = BoundsOf(r.mesh.vertices)

\* C6: the result of an operator that combines two meshes has the color,
\* the modifier and the object id of the first operand
C6_FirstOperandMetadata ==
    op \in {"union", "difference", "intersection", "hull_two",
            "hull_progressive", "minkowski"}
        => /\ r.color = a.color
           /\ r.modifier = a.modifier
           /\ r.object_id = a.object_id

\* C7: the hull of a mesh is the same mesh under every iteration order of
\* the hash maps
C7_HullOrderIndependent ==
    op = "hull" => \A seed \in 0..MaxSeed : r.mesh = ComputeHull(a.mesh, seed)

\* a hull call on at least 4 unique points that are not coplanar
HullOfSolid(points) ==
    /\ op = "hull"
    /\ Len(points) >= 4
    /\ ~IsSome(DetectCoplanarSet(points, AdaptiveEpsilon(points)))

\* what the claim has compute_hull return for the two attempts
ChainOf(first, second) ==
    /\ ValidHull(first) => r.mesh = Unwrap(first)
    /\ ~ValidHull(first) /\ ValidHull(second) => r.mesh = Unwrap(second)
    /\ ~ValidHull(first) /\ ~ValidHull(second) => r.mesh = a.mesh

InFrontOf(mesh, t, point, eps) ==
    With(FaceCross(mesh.vertices, mesh.indices, t), LAMBDA normal :
        With(Dot3(normal, Sub3(point, Corner(mesh.vertices, mesh.indices, t, 0))),
             LAMBDA d : d > 0 /\ DistGtEps(d, Dot3(normal, normal), eps)))

\* C9: no input point is farther than the adaptive eps in front of a face
\* of a mesh the incremental hull returned
C9_HullContainsInput ==
    With(DedupPoints(a.mesh.vertices), LAMBDA points :
        HullOfSolid(points) /\ ValidHull(IncrementalHull(points, Unwrap(arg))) =>
            \A t \in 1..FaceCount(r.mesh), i \in 1..Len(points) :
                ~InFrontOf(r.mesh, t, points[i], AdaptiveEpsilon(points)))

\* the direction of (nx / sx, ny / sy, nz / sz)
ScaledNormal(n, f) ==
    Normalize3(<<n[1] * Sign(f[1]) * Abs(f[2] * f[3]),
                 n[2] * Sign(f[2]) * Abs(f[1] * f[3]),
                 n[3] * Sign(f[3]) * Abs(f[1] * f[2])>>)

\* C10: a translation leaves every normal unchanged, a scale by (sx, sy,
\* sz) turns a normal n into normalize(nx / sx, ny / sy, nz / sz), and no
\* transformation turns a non-zero normal into the zero vector
C10_NormalTransport ==
    /\ op = "translate" => r.mesh.normals = a.mesh.normals
    /\ op = "scale" =>
           \A i \in 1..Len(a.mesh.normals) :
               r.mesh.normals[i] = ScaledNormal(a.mesh.normals[i], Unwrap(arg))
    /\ op \in {"translate", "scale", "transform_mesh_in_place"} =>
           \A i \in 1..Len(a.mesh.normals) :
               a.mesh.normals[i] # Zero3 => r.mesh.normals[i] # Zero3

\* the determinant of the linear 3x3 part of the matrix of the array
LinearDet(array) ==
    array[1] * (array[6] * array[11] - array[7] * array[10])
    - array[2] * (array[5] * array[11] - array[7] * array[9])
    + array[3] * (array[5] * array[10] - array[6] * array[9])

\* C11: for a matrix whose linear 3x3 part is singular, inverse_transpose
\* is the identity matrix
C11_SingularGivesIdentity ==
    op = "multmatrix" /\ LinearDet(Unwrap(arg)) = 0
        => InverseTranspose(FromArray(Unwrap(arg))) = Mat4New

\* triangle t of x has the corners of triangle t of y with two of them
\* exchanged
Rewound(x, y, t) ==
    LET p == SubSeq(x.indices, 3 * t - 2, 3 * t)
        q == SubSeq(y.indices, 3 * t - 2, 3 * t)
    IN  p \in { <<q[2], q[1], q[3]>>, <<q[1], q[3], q[2]>>, <<q[3], q[2], q[1]>> }

\* C12: mirror_x, mirror_y and mirror_z reverse the winding of every
\* triangle of the mesh
C12_MirrorReversesWinding ==
    op \in {"mirror_x", "mirror_y", "mirror_z"}
        => /\ FaceCount(r.mesh) = FaceCount(a.mesh)
           /\ \A t \in 1..FaceCount(a.mesh) : Rewound(r.mesh, a.mesh, t)

\* C13: union(a, b) has the vertices of a followed by those of b, and the
\* indices of a followed by those of b, each increased by the number of
\* vertices of a, so that every index of b refers to the point it referred to
C13_UnionConcatenates ==
    op = "union" =>
        LET na == Len(a.mesh.vertices)
            ia == Len(a.mesh.indices)
        IN  /\ VertexCount(r.mesh) = na + Len(b.mesh.vertices)
            /\ \A i \in 1..na : r.mesh.vertices[i] = a.mesh.vertices[i]
            /\ \A i \in 1..Len(b.mesh.vertices) :
                   r.mesh.vertices[na + i] = b.mesh.vertices[i]
            /\ Len(r.mesh.indices) = ia + Len(b.mesh.indices)
            /\ \A i \in 1..ia : r.mesh.indices[i] = a.mesh.indices[i]
            /\ \A i \in 1..Len(b.mesh.indices) :
                   /\ r.mesh.indices[ia + i] = b.mesh.indices[i] + na
                   /\ r.mesh.vertices[r.mesh.indices[ia + i] + 1]
                          = b.mesh.vertices[b.mesh.indices[i] + 1]

\* a union of two meshes that both have triangles
C13_Witness ==
    /\ op = "union"
    /\ a.mesh.indices # <<>> /\ b.mesh.indices # <<>>
    /\ FaceCount(r.mesh) = FaceCount(a.mesh) + FaceCount(b.mesh)

\* C14: the difference of a closed solid and an identical copy at the same
\* position has fewer than half as many faces as the solid
C14_SelfDifferenceNearlyEmpty ==
    op = "difference" /\ a.mesh = b.mesh /\ ClosedSolid(a.mesh)
        => 2 * FaceCount(r.mesh) < FaceCount(a.mesh)

\* a closed solid was subtracted from itself and nothing is left
C14_Witness ==
    /\ op = "difference"
    /\ a.mesh = b.mesh /\ ClosedSolid(a.mesh)
    /\ FaceCount(r.mesh) = 0

\* some vertex of y is strictly inside the convex solid x and some vertex
\* of y is strictly outside of it
PartialOverlap(x, y) ==
    /\ ClosedSolid(x) /\ ClosedSolid(y)
    /\ \E i \in 1..Len(y.vertices) :
           \A j \in 1..Len(MeshToPolygons(x)) :
               DistBack(MeshToPolygons(x)[j].plane, y.vertices[i])
    /\ \E i \in 1..Len(y.vertices), j \in 1..Len(MeshToPolygons(x)) :
           DistFront(MeshToPolygons(x)[j].plane, y.vertices[i])

\* x is a cube of the primitives and y is a smaller cube that has a vertex
\* strictly inside the bounding box of x, and none outside of it
CubeNotch(x, y) ==
    /\ Len(x.vertices) = 8 /\ x = Cube(2 * x.bounds.max[1])
    /\ FaceCount(y) = FaceCount(x) /\ y.bounds # x.bounds
    /\ \A c \in 1..3 : /\ x.bounds.min[c] <= y.bounds.min[c]
                        /\ y.bounds.max[c] <= x.bounds.max[c]
    /\ \E i \in 1..Len(y.vertices) : \A c \in 1..3 :
           /\ x.bounds.min[c] < y.vertices[i][c]
           /\ y.vertices[i][c] < x.bounds.max[c]

\* C15 as stated: the difference of two partially overlapping closed
\* solids is not empty and has fewer faces than the two solids together,
\* and a cube with a notch has at least the faces of the cube
C15_DifferenceFaceCountBelowSum ==
    op = "difference" =>
        /\ PartialOverlap(a.mesh, b.mesh)
               => /\ FaceCount(r.mesh) > 0
                  /\ FaceCount(r.mesh) < FaceCount(a.mesh) + FaceCount(b.mesh)
        /\ CubeNotch(a.mesh, b.mesh) => FaceCount(r.mesh) >= FaceCount(a.mesh)

\* C15: the difference of two partially overlapping closed solids is not
\* empty, and a cube with a notch has at least the faces of the cube
C15_DifferenceNotEmpty ==
    op = "difference" =>
        /\ PartialOverlap(a.mesh, b.mesh) => FaceCount(r.mesh) > 0
        /\ CubeNotch(a.mesh, b.mesh) => FaceCount(r.mesh) >= FaceCount(a.mesh)

\* a cube with a notch that has more faces than the cube
C15_Witness ==
    /\ op = "difference"
    /\ CubeNotch(a.mesh, b.mesh) /\ FaceCount(r.mesh) > FaceCount(a.mesh)

\* a difference of partially overlapping solids that is not empty
PartialOverlapReached ==
    /\ op = "difference"
    /\ PartialOverlap(a.mesh, b.mesh) /\ FaceCount(r.mesh) > 0

\* the point is inside the box, faces included
InsideBounds(point, bounds) ==
    \A c \in 1..3 : bounds.min[c] <= point[c] /\ point[c] <= bounds.max[c]

\* the k-th edge (k in 0..2) of triangle t, as the set of its two ends
EdgeOf(mesh, t, k) ==
    { mesh.indices[3 * (t - 1) + k + 1],
      mesh.indices[3 * (t - 1) + ((k + 1) % 3) + 1] }

\* a closed surface: every edge of every triangle is an edge of exactly
\* one other triangle
Watertight(mesh) ==
    /\ mesh.indices # <<>>
    /\ \A t \in 1..FaceCount(mesh), k \in 0..2 :
           Cardinality({ u \in 1..FaceCount(mesh) :
                            \E l \in 0..2 : EdgeOf(mesh, u, l) = EdgeOf(mesh, t, k) })
               = 2

\* C16: every vertex of the intersection of two closed meshes is inside the
\* bounding box of the first and inside the bounding box of the second
C16_IntersectionInsideBothBounds ==
    op = "intersection" /\ Watertight(a.mesh) /\ Watertight(b.mesh)
        => \A i \in 1..Len(r.mesh.vertices) :
               /\ InsideBounds(r.mesh.vertices[i], a.mesh.bounds)
               /\ InsideBounds(r.mesh.vertices[i], b.mesh.bounds)

\* the polygon and the plane of the last call of split_by_plane
split_poly == Unwrap(arg)[1]

split_plane == Unwrap(arg)[2]

\* the classes of the vertices of the polygon against the plane
Classes(poly, plane) ==
    [i \in 1..Len(poly.vertices) |-> ClassifyPoint(plane, poly.vertices[i])]

\* the variant of split_by_plane the classes of the vertices call for
VariantOf(poly, plane) ==
    LET classes == Range(Classes(poly, plane))
    IN  IF classes = {"Coplanar"}
        THEN IF Dot3(poly.plane.normal, plane.normal) > 0
             THEN "CoplanarFront" ELSE "CoplanarBack"
        ELSE IF "Back" \notin classes THEN "Front"
        ELSE IF "Front" \notin classes THEN "Back"
        ELSE "Split"

\* C17: split_by_plane returns CoplanarFront when every vertex is Coplanar
\* and the normals have a positive dot product, CoplanarBack when every
\* vertex is Coplanar and the dot product is not positive, Front when no
\* vertex is Back and one is Front, Back when no vertex is Front and one is
\* Back, Split only when one is Front and one is Back; but for Split, the
\* polygon it returns is the polygon it was given
C17_VariantSelection ==
    op = "split_by_plane" =>
        /\ Unwrap(out).kind = VariantOf(split_poly, split_plane)
        /\ Unwrap(out).kind # "Split" => Unwrap(out).poly = Some(split_poly)

\* each of the five variants was returned
C17_Witness ==
    /\ op = "split_by_plane"
    /\ Unwrap(out).kind = "CoplanarBack"
    /\ Dot3(split_poly.plane.normal, split_plane.normal) <= 0
    /\ Unwrap(out).poly = Some(split_poly)

\* x is what is left of the sequence y when some of its elements are removed
RECURSIVE IsSubsequence(_, _)
IsSubsequence(x, y) ==
    IF x = <<>> THEN TRUE
    ELSE IF y = <<>> THEN FALSE
    ELSE IF Head(x) = Head(y) THEN IsSubsequence(Tail(x), Tail(y))
    ELSE IsSubsequence(x, Tail(y))

\* the vertices of the polygon whose class against the plane is not skip
VerticesNot(poly, plane, skip) ==
    SelectSeq(poly.vertices, LAMBDA v : ClassifyPoint(plane, v) # skip)

\* the edges of the polygon with one Front and one Back end
CrossingEdges(poly, plane) ==
    { i \in 1..Len(poly.vertices) :
        { ClassifyPoint(plane, poly.vertices[i]),
          ClassifyPoint(plane, poly.vertices[(i % Len(poly.vertices)) + 1]) }
            = {"Front", "Back"} }

\* the fragment of one side of a split: none of its vertices is on the far
\* side of the plane, it has the vertices of the polygon that are not on
\* the far side, in their order, and one more vertex for every crossing edge
FragmentOf(fragment, poly, plane, far) ==
    /\ \A i \in 1..Len(fragment.vertices) :
           ClassifyPoint(plane, fragment.vertices[i]) # far
    /\ IsSubsequence(VerticesNot(poly, plane, far), fragment.vertices)
    /\ Len(fragment.vertices)
           = Len(VerticesNot(poly, plane, far))
             + Cardinality(CrossingEdges(poly, plane))

\* C18: when split_by_plane returns Split, no vertex of the front fragment
\* is farther than EPSILON behind the plane and no vertex of the back
\* fragment farther than EPSILON in front of it; the Front vertices are in
\* the front fragment, the Back vertices in the back fragment and the
\* Coplanar ones in both, in their order; the only other vertices are one
\* for every edge with a Front and a Back end, the same in both fragments,
\* two at most; and a side with fewer than three vertices is None
C18_SplitFragments ==
    op = "split_by_plane" /\ Unwrap(out).kind = "Split" =>
        /\ Cardinality(CrossingEdges(split_poly, split_plane)) <= 2
        /\ IsSome(Unwrap(out).front)
               => FragmentOf(Unwrap(Unwrap(out).front), split_poly, split_plane, "Back")
        /\ IsSome(Unwrap(out).back)
               => FragmentOf(Unwrap(Unwrap(out).back), split_poly, split_plane, "Front")
        /\ IsSome(Unwrap(out).front) /\ IsSome(Unwrap(out).back)
               => \A v \in Range(Unwrap(Unwrap(out).front).vertices)
                           \ Range(split_poly.vertices) :
                      v \in Range(Unwrap(Unwrap(out).back).vertices)
        /\ Len(VerticesNot(split_poly, split_plane, "Back"))
               + Cardinality(CrossingEdges(split_poly, split_plane)) < 3
               => Unwrap(out).front = None
        /\ Len(VerticesNot(split_poly, split_plane, "Front"))
               + Cardinality(CrossingEdges(split_poly, split_plane)) < 3
               => Unwrap(out).back = None

\* a polygon with a Coplanar vertex was split into two fragments, with one
\* new vertex
C18_Witness ==
    /\ op = "split_by_plane" /\ Unwrap(out).kind = "Split"
    /\ IsSome(Unwrap(out).front) /\ IsSome(Unwrap(out).back)
    /\ Cardinality(CrossingEdges(split_poly, split_plane)) = 1
    /\ "Coplanar" \in Range(Classes(split_poly, split_plane))

\* twice the area of a convex polygon, as a vector along its normal: the
\* sum of the cross products of the triangles of its fan
Area2(poly) ==
    SumVec3([i \in 1..(Len(poly.vertices) - 2) |->
                Cross3(Sub3(poly.vertices[i + 1], poly.vertices[1]),
                       Sub3(poly.vertices[i + 2], poly.vertices[1]))])

\* twice the area of the polygons of the list that lie in the plane
PlaneArea2(list, plane) ==
    SumVec3([i \in 1..Len(list) |->
                IF list[i].plane = plane THEN Area2(list[i]) ELSE Zero3])

\* C19: all_polygons() of the tree BSPNode::new builds of a list of
\* triangles covers the list exactly: every polygon of the tree lies in the
\* plane of a triangle of the list, and in the plane of every triangle the
\* polygons of the tree have the area of the triangles of the list, so that
\* no fragment is lost and none is there twice
C19_AllPolygonsCoverInput ==
    op = "bsp_new" =>
        LET pieces == AllPolygons(Unwrap(out))
        IN  /\ \A i \in 1..Len(pieces) :
                   \E j \in 1..Len(Unwrap(arg)) : pieces[i].plane = Unwrap(arg)[j].plane
            /\ \A j \in 1..Len(Unwrap(arg)) :
                   PlaneArea2(pieces, Unwrap(arg)[j].plane)
                       = PlaneArea2(Unwrap(arg), Unwrap(arg)[j].plane)

\* C20: invert applied to the tree invert returned gives the tree invert
\* was given: the plane of every node, the vertex order and the plane of
\* every polygon and the front and back child of every node are restored,
\* and all_polygons() is what it was
C20_InvertIsInvolution ==
    op = "invert" =>
        /\ Invert(Unwrap(out)) = Unwrap(arg)
        /\ AllPolygons(Invert(Unwrap(out))) = AllPolygons(Unwrap(arg))

\* a tree with a polygon, a front child and a back child was inverted, and
\* the inverted tree is another tree
C20_Witness ==
    /\ op = "invert"
    /\ Unwrap(arg).polygons # <<>>
    /\ IsSome(Unwrap(arg).front) /\ IsSome(Unwrap(arg).back)
    /\ Unwrap(out).front = Some(Invert(Unwrap(Unwrap(arg).back)))
    /\ Unwrap(out) # Unwrap(arg)

\* the node and the list of the last call of clip_polygons
clip_node == Unwrap(arg)[1]

clip_list == Unwrap(arg)[2]

\* what split_by_plane gives the side of a plane for one polygon: the
\* polygon when its variant is one of the two of the side, the fragment of
\* the side when it is split and the fragment is there, else nothing
SideOf(poly, plane, variants, front) ==
    LET s == SplitByPlane(poly, plane)
    IN  IF s.kind \in variants THEN <<poly>>
        ELSE IF s.kind = "Split" THEN (IF front THEN s.front ELSE s.back)
        ELSE <<>>

\* the fragments of the polygons of the list on the front side of the plane
FrontSide(list, plane) ==
    Concat([i \in 1..Len(list) |->
               SideOf(list[i], plane, {"Front", "CoplanarFront"}, TRUE)])

\* the fragments of the polygons of the list on the back side of the plane
BackSide(list, plane) ==
    Concat([i \in 1..Len(list) |->
               SideOf(list[i], plane, {"Back", "CoplanarBack"}, FALSE)])

\* C21: clip_polygons of a node without a plane returns its list; of a
\* node with a plane it returns the front result followed by the back
\* result: the front-side fragments as they are when the node has no front
\* child, and no back-side fragment when the node has no back child, else
\* what the child's clip_polygons makes of the fragments of its side
C21_ClipRouting ==
    op = "clip_polygons" =>
        IF ~IsSome(clip_node.plane) THEN Unwrap(out) = clip_list
        ELSE LET front == FrontSide(clip_list, Unwrap(clip_node.plane))
                 back == BackSide(clip_list, Unwrap(clip_node.plane))
             IN  Unwrap(out)
                     = (IF IsSome(clip_node.front)
                        THEN ClipPolygons(Unwrap(clip_node.front), front)
                        ELSE front)
                       \o (IF IsSome(clip_node.back)
                           THEN ClipPolygons(Unwrap(clip_node.back), back)
                           ELSE <<>>)

\* a node with a back child and no front child kept front-side fragments
\* and its back child dropped back-side fragments
C21_Witness ==
    /\ op = "clip_polygons"
    /\ IsSome(clip_node.plane)
    /\ ~IsSome(clip_node.front) /\ IsSome(clip_node.back)
    /\ FrontSide(clip_list, Unwrap(clip_node.plane)) # <<>>
    /\ BackSide(clip_list, Unwrap(clip_node.plane)) # <<>>
    /\ Len(Unwrap(out)) > Len(FrontSide(clip_list, Unwrap(clip_node.plane)))
    /\ Len(Unwrap(out)) < Len(FrontSide(clip_list, Unwrap(clip_node.plane)))
                            + Len(BackSide(clip_list, Unwrap(clip_node.plane)))

\* a node without a plane returned the list
PlanelessNodeClipped ==
    op = "clip_polygons" /\ ~IsSome(clip_node.plane) /\ Unwrap(out) = clip_list

\* the polygons of the list other than the i-th whose vertices against the
\* plane of the i-th have a class of the set with and none of the set without
Others(list, i, with, without) ==
    { j \in (1..Len(list)) \ {i} :
        LET classes == Range(Classes(list[j], list[i].plane))
        IN  /\ with \subseteq classes
            /\ classes \cap without = {} }

\* |front - back| + 8 * split over the other polygons, for the plane of
\* the i-th polygon of the list
BalanceScore(list, i) ==
    Abs(Cardinality(Others(list, i, {"Front"}, {"Back"}))
        - Cardinality(Others(list, i, {"Back"}, {"Front"})))
    + 8 * Cardinality(Others(list, i, {"Front", "Back"}, {}))

\* C22: choose_splitting_plane returns the plane of the first polygon of
\* the list with the least |front - back| + 8 * split, where front, back
\* and split count the other polygons in front of, behind and across the
\* plane, and a polygon coplanar with the plane is in none of the counts
C22_FirstMinimalBalance ==
    op = "choose_splitting_plane" =>
        \E i \in 1..Len(Unwrap(arg)) :
            /\ Unwrap(out) = Unwrap(arg)[i].plane
            /\ \A j \in 1..Len(Unwrap(arg)) :
                   BalanceScore(Unwrap(arg), i) <= BalanceScore(Unwrap(arg), j)
            /\ \A j \in 1..(i - 1) :
                   BalanceScore(Unwrap(arg), j) > BalanceScore(Unwrap(arg), i)

\* the fragments of the polygons of the list strictly on one side of the
\* plane: the lists build_with_depth hands to its children
FrontList(list, plane) ==
    Concat([i \in 1..Len(list) |-> SideOf(list[i], plane, {"Front"}, TRUE)])

BackList(list, plane) ==
    Concat([i \in 1..Len(list) |-> SideOf(list[i], plane, {"Back"}, FALSE)])

\* the fresh node that was handed the non-empty list at the depth, and
\* every node below it: at the depth limit it has the list and neither a
\* plane nor a child; above the limit it has a plane and a polygon of its
\* own, and a child for each side that has fragments
RECURSIVE WithinDepth(_, _, _)
WithinDepth(node, list, depth) ==
    IF depth >= MAX_BSP_DEPTH
    THEN node = BSPNode(None, None, None, list)
    ELSE /\ IsSome(node.plane)
         /\ node.polygons # <<>>
         /\ LET front == FrontList(list, Unwrap(node.plane))
                back == BackList(list, Unwrap(node.plane))
            IN  /\ IsSome(node.front) <=> front # <<>>
                /\ IsSome(node.back) <=> back # <<>>
                /\ front # <<>> => WithinDepth(Unwrap(node.front), front, depth + 1)
                /\ back # <<>> => WithinDepth(Unwrap(node.back), back, depth + 1)

\* C23: build_with_depth returns, and no node of the tree is deeper than
\* MAX_BSP_DEPTH: a node at depth MAX_BSP_DEPTH stores the polygons handed
\* to it and has neither a plane nor children, and every node above it has a
\* plane and keeps a polygon in its own list
C23_DepthLimit ==
    op = "build_with_depth" =>
        /\ Unwrap(arg)[2] + Depth(Unwrap(out)) <= MAX_BSP_DEPTH
        /\ WithinDepth(Unwrap(out), Unwrap(arg)[1], Unwrap(arg)[2])

\* a build arrived at the depth limit with two polygons left
C23_Witness ==
    /\ op = "build_with_depth"
    /\ Unwrap(arg)[2] + Depth(Unwrap(out)) = MAX_BSP_DEPTH
    /\ Len(Unwrap(Unwrap(Unwrap(out).back).back).polygons) = 2
    /\ Unwrap(Unwrap(Unwrap(out).back).back).plane = None

\* the box of the polygon misses the bounds of the mesh on some axis
MissesBounds(poly, mesh) ==
    \E c \in 1..3 :
        \/ \A i \in 1..Len(poly.vertices) : poly.vertices[i][c] < mesh.bounds.min[c]
        \/ \A i \in 1..Len(poly.vertices) : poly.vertices[i][c] > mesh.bounds.max[c]

a_clip == SelectSeq(MeshToPolygons(a.mesh), LAMBDA q : ~MissesBounds(q, b.mesh))

a_passthru == SelectSeq(MeshToPolygons(a.mesh), LAMBDA q : MissesBounds(q, b.mesh))

b_clip == SelectSeq(MeshToPolygons(b.mesh), LAMBDA q : ~MissesBounds(q, a.mesh))

\* one step of the protocol on the pair of trees
ProtocolStep(s, step) ==
    CASE step = "a.invert" -> [s EXCEPT !.a = Invert(s.a)]
      [] step = "a.clip_to(b)" -> [s EXCEPT !.a = ClipTo(s.a, s.b)]
      [] step = "b.clip_to(a)" -> [s EXCEPT !.b = ClipTo(s.b, s.a)]
      [] step = "b.invert" -> [s EXCEPT !.b = Invert(s.b)]
      [] step = "merge" -> [s EXCEPT !.a = [s.a EXCEPT !.polygons = @ \o AllPolygons(s.b)]]

RECURSIVE Protocol(_, _)
Protocol(s, steps) ==
    IF steps = <<>> THEN s ELSE Protocol(ProtocolStep(s, Head(steps)), Tail(steps))

DifferenceOrder ==
    <<"a.invert", "a.clip_to(b)", "b.clip_to(a)", "b.invert", "b.clip_to(a)",
      "b.invert", "merge", "a.invert">>

\* C24: when both clip subsets are non-empty, the result of difference is
\* the mesh of the polygons that the steps a.invert, a.clip_to(b),
\* b.clip_to(a), b.invert, b.clip_to(a), b.invert, merge, a.invert leave in
\* the tree of a_clip, the trees being built from a_clip and b_clip only,
\* followed by the polygons of a_passthru: the triangles of A whose box
\* misses the bounds of B are the last triangles of the result, vertex for
\* vertex
C24_DifferenceProtocol ==
    (op = "difference" /\ a_clip # <<>> /\ b_clip # <<>>) =>
        /\ r.mesh = PolygonsToMesh(
               AllPolygons(Protocol([a |-> Unwrap(BSPNodeNew(a_clip)),
                                     b |-> Unwrap(BSPNodeNew(b_clip))],
                                    DifferenceOrder).a)
               \o a_passthru)
        /\ Len(r.mesh.vertices) >= 3 * Len(a_passthru)
        /\ SubSeq(r.mesh.vertices,
                  Len(r.mesh.vertices) - 3 * Len(a_passthru) + 1,
                  Len(r.mesh.vertices))
             = Concat([i \in 1..Len(a_passthru) |-> a_passthru[i].vertices])

\* a difference clipped some triangles of A and passed the others through
C24_Witness ==
    /\ op = "difference"
    /\ a_clip # <<>>
    /\ b_clip # <<>>
    /\ a_passthru # <<>>
    /\ Len(r.mesh.vertices) > 3 * Len(a_passthru)

\* C25: a view of the WasmMesh that was read stays in its cell, every read
\* returns the array in the cell, and the array is the flattening of the
\* buffer of the wrapped mesh, which is still the mesh the WasmMesh was
\* constructed with, whatever accessors and setters were called in between
C25_ViewsNeverStale ==
    Held =>
        /\ r.mesh = Cube(Unwrap(arg))
        /\ IsSome(cached.vertices) => Unwrap(cached.vertices) = Concat(r.mesh.vertices)
        /\ IsSome(cached.indices) => Unwrap(cached.indices) = r.mesh.indices
        /\ IsSome(cached.normals) => Unwrap(cached.normals) = Concat(r.mesh.normals)
        /\ op = "create_cube" => cached = NewCells /\ view = None
        /\ op = "vertices" => view = cached.vertices
        /\ op = "indices" => view = cached.indices
        /\ op = "normals" => view = cached.normals

\* the vertices were read, a setter has changed the metadata, and the
\* vertices are read once more
C25_Witness ==
    /\ op = "vertices"
    /\ r.modifier = Some("#")
    /\ r.object_id = Some("id")
    /\ IsSome(cached.indices)
    /\ IsSome(cached.normals)
    /\ Len(Unwrap(view)) = 24

\* the loop of incremental_hull runs or has ended
InLoop == op \in {"hull_loop", "hull_exit"}

\* the list of the faces is the list of the triangles of the mesh
MeshOfFaces(mesh, faces, points) ==
    /\ Len(mesh.vertices) = 3 * Len(faces)
    /\ \A i \in 1..Len(faces), c \in 1..3 :
           mesh.vertices[3 * (i - 1) + c] = points[faces[i].vertices[c]]

\* the loop never runs more than 3 * |points| iterations, and it is left
\* only at that limit or when no conflict point has a positive distance
\* to its face; the faces it is left with are the mesh of the hull
C26_Safety ==
    /\ InLoop => /\ loop_iteration <= 3 * Len(loop_points)
                 /\ loop_iteration = Unwrap(out).iteration
    /\ op = "hull_exit" =>
           /\ \/ loop_iteration = 3 * Len(loop_points)
              \/ \A fi \in 1..Len(Unwrap(out).faces) :
                     \A c \in 1..Len(Unwrap(out).faces[fi].conflict_points) :
                         FaceDistance(Unwrap(out).faces[fi],
                             loop_points[Unwrap(out).faces[fi].conflict_points[c]]) <= 0
           /\ IsSome(Unwrap(out).mesh)
           /\ MeshOfFaces(Unwrap(Unwrap(out).mesh), Unwrap(out).faces, loop_points)

\* C26: the loop of incremental_hull ends for every input, after at most
\* 3 * |points| iterations: when no conflict point has a positive distance
\* to its face, or at the limit, and then the faces it has are the result
C26_LoopTerminates ==
    /\ []C26_Safety
    /\ (op = "hull_loop") ~> (op = "hull_exit")

\* the loop was left at the iteration limit with a conflict point left
C26_Witness ==
    /\ op = "hull_exit"
    /\ Unwrap(out).iteration = 3 * Len(loop_points)
    /\ IsSome(loop_best)

\* the loop was left because no conflict point was left
C26_BreakReached ==
    /\ op = "hull_exit"
    /\ Unwrap(out).iteration < 3 * Len(loop_points)
    /\ Unwrap(out).iteration > 0

\* the directed edges of all the faces
AllEdges(faces) ==
    Concat([fi \in 1..Len(faces) |->
               <<FaceEdge(faces[fi], 0), FaceEdge(faces[fi], 1), FaceEdge(faces[fi], 2)>>])

\* how often the directed edge is in the list
Count(edges, e) == Cardinality({i \in 1..Len(edges) : edges[i] = e})

\* every edge is in two faces, which traverse it in opposite directions
ClosedManifold(faces) ==
    \A i \in 1..Len(AllEdges(faces)) :
        /\ Count(AllEdges(faces), AllEdges(faces)[i]) = 1
        /\ Count(AllEdges(faces), <<AllEdges(faces)[i][2], AllEdges(faces)[i][1]>>) = 1

\* the faces of the loop marked from the apex of the next iteration
loop_marked ==
    Marked(Unwrap(out).faces, loop_points[Unwrap(loop_best)[1]], loop_eps)

\* the loop has an iteration to run
Iterating ==
    /\ op = "hull_loop"
    /\ Unwrap(out).iteration < 3 * Len(loop_points)
    /\ IsSome(loop_best)

\* the faces are a closed manifold of which the apex sees some faces and
\* not all
HorizonCase ==
    /\ Iterating
    /\ ClosedManifold(Unwrap(out).faces)
    /\ \E i \in 1..Len(loop_marked) : loop_marked[i].is_visible
    /\ \E i \in 1..Len(loop_marked) : ~loop_marked[i].is_visible

\* the edges that are in exactly one visible face, reversed
OnceVisible(marked) ==
    { <<e[2], e[1]>> : e \in { f \in Range(FaceEdges(marked, TRUE)) :
          Count(FaceEdges(marked, TRUE), f) = 1
          /\ Count(FaceEdges(marked, TRUE), <<f[2], f[1]>>) = 0 } }

\* find_horizon_edges returns the edges of exactly one visible face, each
\* once and reversed
HorizonExact ==
    HorizonCase =>
        LET horizon == FindHorizonEdges(loop_marked, loop_seed)
        IN  /\ Range(horizon) = OnceVisible(loop_marked)
            /\ Cardinality(Range(horizon)) = Len(horizon)

\* the faces after the iteration
loop_next ==
    HullStep(Unwrap(out), Unwrap(loop_best)[1], loop_points, loop_eps, loop_seed)

\* C27: when the faces are a closed manifold and the apex sees some of
\* them and not all, find_horizon_edges returns the edges of exactly one
\* visible face, each once and reversed, and the faces after the iteration
\* are a closed manifold again
C27_HorizonKeepsManifold ==
    HorizonCase =>
        /\ HorizonExact
        /\ ClosedManifold(loop_next.faces)

\* C28: no point of a conflict list was an apex before: a point that an
\* iteration selected, also one that the iteration abandoned, is in no
\* conflict list afterwards, and the loop ends without reaching the limit
C28_ApexOnlyOnce ==
    InLoop =>
        /\ \A fi \in 1..Len(Unwrap(out).faces) :
               \A c \in 1..Len(Unwrap(out).faces[fi].conflict_points) :
                   Unwrap(out).faces[fi].conflict_points[c] \notin Unwrap(out).processed
        /\ op = "hull_exit" => ~IsSome(loop_best)

\* the conflict points of all faces, in the order of the faces
AllConflicts(faces) == Concat([fi \in 1..Len(faces) |-> faces[fi].conflict_points])

\* C29: in every iteration no point is in two conflict lists or twice in
\* one, no vertex of the first tetrahedron is in a list, every point of a
\* list is at least eps in front of the face of the list, and the apex
\* sees a face
C29_ConflictLists ==
    InLoop =>
        LET faces == Unwrap(out).faces
        IN  /\ Cardinality(Range(AllConflicts(faces))) = Len(AllConflicts(faces))
            /\ Range(AllConflicts(faces))
                   \cap TetVertices(Unwrap(BuildInitialTetrahedron(loop_points, loop_eps)))
                 = {}
            /\ \A fi \in 1..Len(faces) :
                   \A c \in 1..Len(faces[fi].conflict_points) :
                       PointVisible(faces[fi], loop_points[faces[fi].conflict_points[c]],
                                    loop_eps)
            /\ Iterating => \E i \in 1..Len(loop_marked) : loop_marked[i].is_visible

\* an iteration has given the points of the faces it removed to new faces,
\* and another apex is selected
C29_Witness ==
    /\ Iterating
    /\ Unwrap(out).iteration > 0
    /\ \E fi \in 5..Len(Unwrap(out).faces) :
           Len(Unwrap(out).faces[fi].conflict_points) > 0

\* the inner branch of split_by_plane is entered in exact arithmetic for
\* edges whose denom is above 0.1 * EPSILON only, with t = num / denom
\* strictly between 0 and 1
InterpolatedExactly ==
    \A i \in CrossingEdges(split_poly, split_plane) :
        LET vi == split_poly.vertices[i]
            vj == split_poly.vertices[(i % Len(split_poly.vertices)) + 1]
            denom == Dot3(split_plane.normal, Sub3(vj, vi))
            num == split_plane.w - Dot3(split_plane.normal, vi)
        IN  /\ DistGt(Abs(denom), Dot3(split_plane.normal, split_plane.normal),
                      EPSILON + 1)
            /\ Sign(num) * Sign(denom) > 0
            /\ Abs(num) < Abs(denom)

\* the same of what the inner branch computed in f32: it never took the
\* midpoint, and t was strictly between 0 and 1 before it was clamped
InterpolatedF32 ==
    \A k \in 1..Len(Unwrap(out).crossings) :
        /\ IsSome(Unwrap(out).crossings[k].t)
        /\ F32Gt(Unwrap(Unwrap(out).crossings[k].t), F32(0))
        /\ F32Lt(Unwrap(Unwrap(out).crossings[k].t), F32(1))

\* C30: in split_by_plane the midpoint fallback for an edge nearly parallel
\* to the plane is never taken: for every edge with a Front and a Back end
\* the denominator plane.normal . (vj - vi) is above 0.1 * EPSILON in
\* magnitude and t lies strictly between 0 and 1 before it is clamped
C30_FallbackUnreachable ==
    /\ op = "split_by_plane" => InterpolatedExactly
    /\ op = "split_by_plane_f32" => InterpolatedF32

\* in exact arithmetic the fallback is not reached
C30_ExactArithmetic == op = "split_by_plane" => InterpolatedExactly

\* an edge with a Front and a Back end was interpolated in f32
C30_Interpolated ==
    /\ op = "split_by_plane_f32"
    /\ Unwrap(out).crossings # <<>>
    /\ InterpolatedF32

=============================================================================
